---------------------------- MODULE Spec2Model ----------------------------
(***************************************************************************)
(* State-machine model of generate_countdown.py: the style catalogs, the   *)
(* font loaders, the colour resolver hex_to_rgb, the time formatter, the    *)
(* two frame compositors (as the list of drawing operations they perform), *)
(* the sequencer generate_frames, preview_style and the command-line       *)
(* dispatcher main.                                                        *)
(*                                                                         *)
(* Conventions                                                             *)
(*  - Python str values that the program computes digit by digit are       *)
(*    sequences of one-character strings (so that they can be measured and *)
(*    parsed back); Text(s) joins such a sequence into a string.           *)
(*  - Python float ratios are exact rationals <<numerator, denominator>>   *)
(*    with a positive denominator, in lowest terms.                        *)
(*  - A Python dict is the sequence of its [key, cfg] entries in insertion *)
(*    order.                                                               *)
(*  - None is NONE for string-valued fields and <<>> for tuple-valued      *)
(*    fields (both are falsy, as None is).                                 *)
(***************************************************************************)
EXTENDS Integers, Sequences, FiniteSets, TLC

VARIABLES
    call,        \* the invocation being run: entry point and its arguments
    pc,          \* position of the program
    queue,       \* arguments still to be handed to a callee, in order
    style_name,  \* generate_frames: its style_name argument
    total_frames,\* generate_frames: duration * fps
    second,      \* generate_frames: the outer loop variable
    next_second, \* generate_frames: the value range(...) yields next
    visited,     \* generate_frames: the seconds whose loop body was entered
    sub_frame,   \* generate_frames: the value range(fps) yields next
    frame_num,   \* generate_frames: the frame counter
    img,         \* generate_frames: the image bound to img, NoImage if unbound
    run,         \* number of generate_frames / preview_style calls started
    files,       \* every img.save so far, in order: [path, img, run]
    dirs,        \* every directory os.makedirs was asked for
    stdout,      \* every line printed so far
    exit_code,   \* process exit status, NotExited while running
    renders,     \* every compositor call so far, with its result
    ft_arg,      \* argument of a direct format_time call
    ft_ret,      \* its result, <<>> before the call
    font_env,    \* the font files on disk, as a font loader call finds them
    font_ret     \* the font a direct font loader call returned, <<>> before

vars == <<call, pc, queue, style_name, total_frames, second, next_second, visited,
          sub_frame, frame_num,
          img, run, files, dirs, stdout, exit_code, renders, ft_arg, ft_ret, font_env, font_ret>>

-----------------------------------------------------------------------------
(* Bounds of the model *)

MaxFps == 3
MaxDuration == 3
MaxStart == 4
MaxTotal == 2
MaxRemaining == 3
MaxSmallSeconds == 130

-----------------------------------------------------------------------------
(* Python values *)

NONE == "None"
NoImage == [kind |-> "unbound"]
NotExited == <<>>

Min(a, b) == IF a < b THEN a ELSE b
Max(a, b) == IF a > b THEN a ELSE b

(* Exact rationals standing for Python floats *)
GCD[a \in Nat, b \in Nat] == IF b = 0 THEN a ELSE GCD[b, a % b]
Abs(a) == IF a < 0 THEN -a ELSE a
Rat(n, d) ==
    LET g == GCD[Abs(n), d] IN <<n \div g, d \div g>>
RatInt(n) == <<n, 1>>
RatDiv(a, b) == Rat(a, b)                       \* int / int, b > 0
RatSub(p, q) == Rat(p[1] * q[2] - q[1] * p[2], p[2] * q[2])
RatAdd(p, q) == Rat(p[1] * q[2] + q[1] * p[2], p[2] * q[2])
RatMul(p, q) == Rat(p[1] * q[1], p[2] * q[2])
RatLess(p, q) == p[1] * q[2] < q[1] * p[2]
RatLeq(p, q) == p[1] * q[2] <= q[1] * p[2]

(* Decimal formatting *)
DIGITS == <<"0", "1", "2", "3", "4", "5", "6", "7", "8", "9">>

RECURSIVE DecimalDigits(_)
DecimalDigits(n) ==
    IF n < 10 THEN <<DIGITS[n + 1]>>
    ELSE Append(DecimalDigits(n \div 10), DIGITS[(n % 10) + 1])

RECURSIVE ZeroFill(_, _)
ZeroFill(s, width) ==
    IF Len(s) >= width THEN s ELSE ZeroFill(<<"0">> \o s, width)

(* f"{n:0{width}d}": the sign counts towards the width; never truncates *)
FormatD(n, width) ==
    IF n < 0 THEN <<"-">> \o ZeroFill(DecimalDigits(-n), width - 1)
    ELSE ZeroFill(DecimalDigits(n), width)

RECURSIVE Text(_)
Text(s) == IF s = <<>> THEN "" ELSE Head(s) \o Text(Tail(s))

(* Python dicts *)
HasKey(d, k) == \E i \in 1..Len(d) : d[i].key = k
DictGet(d, k) == d[CHOOSE i \in 1..Len(d) : d[i].key = k].cfg
DictKeys(d) == [i \in 1..Len(d) |-> d[i].key]
DictSet(d, k, v) ==
    IF HasKey(d, k)
    THEN [i \in 1..Len(d) |-> IF d[i].key = k THEN [key |-> k, cfg |-> v] ELSE d[i]]
    ELSE Append(d, [key |-> k, cfg |-> v])

RECURSIVE DictUpdate(_, _)
DictUpdate(d, e) ==
    IF e = <<>> THEN d
    ELSE DictUpdate(DictSet(d, Head(e).key, Head(e).cfg), Tail(e))

-----------------------------------------------------------------------------
(* Style definitions *)

STYLES ==
  <<
    [key |-> "modern", cfg |->
      [
       class |-> "StyleConfig", name |-> "modern",
       description |-> "Clean modern look with dark background and cyan text", width |-> 1920,
       height |-> 1080, bg_color |-> "#0a0a0a", text_color |-> "#00e5ff", font_size |-> 280,
       font_name |-> NONE, separator |-> ":", show_labels |-> TRUE, label_color |-> "#555555",
       border |-> FALSE, border_color |-> "#000", border_width |-> 0, rounded_bg |-> TRUE,
       digit_bg_color |-> "#1a1a2e", glow |-> FALSE, progress_bar |-> TRUE,
       progress_color |-> "#00e5ff", gradient_bg |-> FALSE, gradient_colors |-> <<>>,
       circle_progress |-> FALSE, circle_color |-> "#000", monospace |-> TRUE ] ],
    [key |-> "classic", cfg |->
      [
       class |-> "StyleConfig", name |-> "classic",
       description |-> "Traditional white on black with serif-style digits", width |-> 1920,
       height |-> 1080, bg_color |-> "#000000", text_color |-> "#ffffff", font_size |-> 300,
       font_name |-> NONE, separator |-> ":", show_labels |-> FALSE, label_color |-> "#888",
       border |-> TRUE, border_color |-> "#ffffff", border_width |-> 4, rounded_bg |-> FALSE,
       digit_bg_color |-> NONE, glow |-> FALSE, progress_bar |-> FALSE,
       progress_color |-> "#000", gradient_bg |-> FALSE, gradient_colors |-> <<>>,
       circle_progress |-> FALSE, circle_color |-> "#000", monospace |-> TRUE ] ],
    [key |-> "neon", cfg |->
      [
       class |-> "StyleConfig", name |-> "neon",
       description |-> "Neon glow effect on dark purple background", width |-> 1920,
       height |-> 1080, bg_color |-> "#0d0221", text_color |-> "#ff2afc", font_size |-> 220,
       font_name |-> NONE, separator |-> " : ", show_labels |-> FALSE, label_color |-> "#555",
       border |-> FALSE, border_color |-> "#000", border_width |-> 0, rounded_bg |-> FALSE,
       digit_bg_color |-> NONE, glow |-> TRUE, progress_bar |-> FALSE,
       progress_color |-> "#000", gradient_bg |-> FALSE, gradient_colors |-> <<>>,
       circle_progress |-> FALSE, circle_color |-> "#000", monospace |-> TRUE ] ],
    [key |-> "minimal", cfg |->
      [
       class |-> "StyleConfig", name |-> "minimal",
       description |-> "Minimal white background with thin gray text", width |-> 1920,
       height |-> 1080, bg_color |-> "#ffffff", text_color |-> "#333333", font_size |-> 260,
       font_name |-> NONE, separator |-> ":", show_labels |-> TRUE, label_color |-> "#aaaaaa",
       border |-> FALSE, border_color |-> "#000", border_width |-> 0, rounded_bg |-> FALSE,
       digit_bg_color |-> NONE, glow |-> FALSE, progress_bar |-> FALSE,
       progress_color |-> "#000", gradient_bg |-> FALSE, gradient_colors |-> <<>>,
       circle_progress |-> FALSE, circle_color |-> "#000", monospace |-> TRUE ] ],
    [key |-> "retro", cfg |->
      [
       class |-> "StyleConfig", name |-> "retro",
       description |-> "Retro LED display with amber digits on dark background",
       width |-> 1920, height |-> 1080, bg_color |-> "#1a1000", text_color |-> "#ff8c00",
       font_size |-> 300, font_name |-> NONE, separator |-> ":", show_labels |-> FALSE,
       label_color |-> "#555", border |-> TRUE, border_color |-> "#332200", border_width |-> 8,
       rounded_bg |-> TRUE, digit_bg_color |-> "#0f0a00", glow |-> TRUE,
       progress_bar |-> FALSE, progress_color |-> "#000", gradient_bg |-> FALSE,
       gradient_colors |-> <<>>, circle_progress |-> FALSE, circle_color |-> "#000",
       monospace |-> TRUE ] ],
    [key |-> "gradient", cfg |->
      [
       class |-> "StyleConfig", name |-> "gradient",
       description |-> "Vibrant gradient background with white text", width |-> 1920,
       height |-> 1080, bg_color |-> "#000000", text_color |-> "#ffffff", font_size |-> 280,
       font_name |-> NONE, separator |-> ":", show_labels |-> TRUE, label_color |-> "#dddddd",
       border |-> FALSE, border_color |-> "#000", border_width |-> 0, rounded_bg |-> FALSE,
       digit_bg_color |-> NONE, glow |-> FALSE, progress_bar |-> TRUE,
       progress_color |-> "#ffffff", gradient_bg |-> TRUE,
       gradient_colors |-> <<"#667eea", "#764ba2">>, circle_progress |-> FALSE,
       circle_color |-> "#000", monospace |-> TRUE ] ],
    [key |-> "terminal", cfg |->
      [
       class |-> "StyleConfig", name |-> "terminal",
       description |-> "Hacker-style green on black terminal look", width |-> 1920,
       height |-> 1080, bg_color |-> "#0c0c0c", text_color |-> "#00ff41", font_size |-> 260,
       font_name |-> NONE, separator |-> ":", show_labels |-> TRUE, label_color |-> "#006b1a",
       border |-> TRUE, border_color |-> "#00ff41", border_width |-> 2, rounded_bg |-> FALSE,
       digit_bg_color |-> NONE, glow |-> TRUE, progress_bar |-> FALSE,
       progress_color |-> "#000", gradient_bg |-> FALSE, gradient_colors |-> <<>>,
       circle_progress |-> FALSE, circle_color |-> "#000", monospace |-> TRUE ] ],
    [key |-> "cinematic", cfg |->
      [
       class |-> "StyleConfig", name |-> "cinematic",
       description |-> "Cinematic widescreen with gold text on dark gradient", width |-> 1920,
       height |-> 1080, bg_color |-> "#000000", text_color |-> "#d4af37", font_size |-> 220,
       font_name |-> NONE, separator |-> " : ", show_labels |-> FALSE, label_color |-> "#555",
       border |-> FALSE, border_color |-> "#000", border_width |-> 0, rounded_bg |-> FALSE,
       digit_bg_color |-> NONE, glow |-> TRUE, progress_bar |-> FALSE,
       progress_color |-> "#000", gradient_bg |-> TRUE,
       gradient_colors |-> <<"#1a1a1a", "#000000">>, circle_progress |-> FALSE,
       circle_color |-> "#000", monospace |-> TRUE ] ],
    [key |-> "sport", cfg |->
      [
       class |-> "StyleConfig", name |-> "sport",
       description |-> "Sporty bold red countdown with progress bar", width |-> 1920,
       height |-> 1080, bg_color |-> "#111111", text_color |-> "#ff1744", font_size |-> 300,
       font_name |-> NONE, separator |-> ":", show_labels |-> TRUE, label_color |-> "#666666",
       border |-> FALSE, border_color |-> "#000", border_width |-> 0, rounded_bg |-> TRUE,
       digit_bg_color |-> "#1c1c1c", glow |-> FALSE, progress_bar |-> TRUE,
       progress_color |-> "#ff1744", gradient_bg |-> FALSE, gradient_colors |-> <<>>,
       circle_progress |-> FALSE, circle_color |-> "#000", monospace |-> TRUE ] ],
    [key |-> "elegant", cfg |->
      [
       class |-> "StyleConfig", name |-> "elegant",
       description |-> "Elegant cream background with dark brown text and circle progress",
       width |-> 1920, height |-> 1080, bg_color |-> "#f5f0e8", text_color |-> "#3e2723",
       font_size |-> 180, font_name |-> NONE, separator |-> "  :  ", show_labels |-> TRUE,
       label_color |-> "#8d6e63", border |-> FALSE, border_color |-> "#000",
       border_width |-> 0, rounded_bg |-> FALSE, digit_bg_color |-> NONE, glow |-> FALSE,
       progress_bar |-> FALSE, progress_color |-> "#000", gradient_bg |-> FALSE,
       gradient_colors |-> <<>>, circle_progress |-> TRUE, circle_color |-> "#8d6e63",
       monospace |-> TRUE ] ]
  >>

CIRCLE_STYLES ==
  <<
    [key |-> "circle-modern", cfg |->
      [
       class |-> "CircleTimerConfig", name |-> "circle-modern",
       description |-> "Modern dark circle timer with cyan wedge", width |-> 1080,
       height |-> 1080, bg_color |-> "#0a0a0a", text_color |-> "#00e5ff", font_size |-> 90,
       wedge_color |-> "#00e5ff", wedge_alpha |-> 180, ring_color |-> "#00e5ff",
       ring_width |-> 6, tick_color |-> "#00e5ff", tick_major_len |-> 25,
       tick_minor_len |-> 12, show_ticks |-> TRUE, show_hour_numbers |-> FALSE,
       hour_number_color |-> "#555", center_dot |-> TRUE, center_dot_color |-> "#00e5ff",
       glow |-> FALSE, gradient_bg |-> FALSE, gradient_colors |-> <<>> ] ],
    [key |-> "circle-classic", cfg |->
      [
       class |-> "CircleTimerConfig", name |-> "circle-classic",
       description |-> "Classic Time Timer style with red wedge on white", width |-> 1080,
       height |-> 1080, bg_color |-> "#ffffff", text_color |-> "#333333", font_size |-> 80,
       wedge_color |-> "#e53935", wedge_alpha |-> 200, ring_color |-> "#333333",
       ring_width |-> 5, tick_color |-> "#333333", tick_major_len |-> 30,
       tick_minor_len |-> 15, show_ticks |-> TRUE, show_hour_numbers |-> TRUE,
       hour_number_color |-> "#666666", center_dot |-> TRUE, center_dot_color |-> "#333333",
       glow |-> FALSE, gradient_bg |-> FALSE, gradient_colors |-> <<>> ] ],
    [key |-> "circle-neon", cfg |->
      [
       class |-> "CircleTimerConfig", name |-> "circle-neon",
       description |-> "Neon glowing circle timer on dark purple", width |-> 1080,
       height |-> 1080, bg_color |-> "#0d0221", text_color |-> "#ff2afc", font_size |-> 90,
       wedge_color |-> "#ff2afc", wedge_alpha |-> 150, ring_color |-> "#ff2afc",
       ring_width |-> 4, tick_color |-> "#ff2afc", tick_major_len |-> 20,
       tick_minor_len |-> 10, show_ticks |-> TRUE, show_hour_numbers |-> FALSE,
       hour_number_color |-> "#555", center_dot |-> FALSE, center_dot_color |-> "#000",
       glow |-> TRUE, gradient_bg |-> FALSE, gradient_colors |-> <<>> ] ],
    [key |-> "circle-minimal", cfg |->
      [
       class |-> "CircleTimerConfig", name |-> "circle-minimal",
       description |-> "Minimal circle timer with thin ring on white", width |-> 1080,
       height |-> 1080, bg_color |-> "#ffffff", text_color |-> "#333333", font_size |-> 80,
       wedge_color |-> "#90caf9", wedge_alpha |-> 140, ring_color |-> "#cccccc",
       ring_width |-> 2, tick_color |-> "#cccccc", tick_major_len |-> 15, tick_minor_len |-> 0,
       show_ticks |-> TRUE, show_hour_numbers |-> FALSE, hour_number_color |-> "#aaa",
       center_dot |-> FALSE, center_dot_color |-> "#000", glow |-> FALSE,
       gradient_bg |-> FALSE, gradient_colors |-> <<>> ] ],
    [key |-> "circle-retro", cfg |->
      [
       class |-> "CircleTimerConfig", name |-> "circle-retro",
       description |-> "Retro amber circle timer with LED look", width |-> 1080,
       height |-> 1080, bg_color |-> "#1a1000", text_color |-> "#ff8c00", font_size |-> 90,
       wedge_color |-> "#ff8c00", wedge_alpha |-> 160, ring_color |-> "#ff8c00",
       ring_width |-> 5, tick_color |-> "#ff8c00", tick_major_len |-> 25,
       tick_minor_len |-> 12, show_ticks |-> TRUE, show_hour_numbers |-> FALSE,
       hour_number_color |-> "#555", center_dot |-> TRUE, center_dot_color |-> "#ff8c00",
       glow |-> TRUE, gradient_bg |-> FALSE, gradient_colors |-> <<>> ] ],
    [key |-> "circle-gradient", cfg |->
      [
       class |-> "CircleTimerConfig", name |-> "circle-gradient",
       description |-> "Circle timer on vibrant purple gradient", width |-> 1080,
       height |-> 1080, bg_color |-> "#000000", text_color |-> "#ffffff", font_size |-> 80,
       wedge_color |-> "#ffffff", wedge_alpha |-> 120, ring_color |-> "#ffffff",
       ring_width |-> 4, tick_color |-> "#ffffffcc", tick_major_len |-> 20,
       tick_minor_len |-> 10, show_ticks |-> TRUE, show_hour_numbers |-> FALSE,
       hour_number_color |-> "#ddd", center_dot |-> TRUE, center_dot_color |-> "#ffffff",
       glow |-> FALSE, gradient_bg |-> TRUE, gradient_colors |-> <<"#667eea", "#764ba2">> ] ],
    [key |-> "circle-terminal", cfg |->
      [
       class |-> "CircleTimerConfig", name |-> "circle-terminal",
       description |-> "Terminal green circle timer on black", width |-> 1080, height |-> 1080,
       bg_color |-> "#0c0c0c", text_color |-> "#00ff41", font_size |-> 80,
       wedge_color |-> "#00ff41", wedge_alpha |-> 130, ring_color |-> "#00ff41",
       ring_width |-> 3, tick_color |-> "#00ff41", tick_major_len |-> 20,
       tick_minor_len |-> 10, show_ticks |-> TRUE, show_hour_numbers |-> FALSE,
       hour_number_color |-> "#006b1a", center_dot |-> FALSE, center_dot_color |-> "#000",
       glow |-> TRUE, gradient_bg |-> FALSE, gradient_colors |-> <<>> ] ],
    [key |-> "circle-cinematic", cfg |->
      [
       class |-> "CircleTimerConfig", name |-> "circle-cinematic",
       description |-> "Cinematic gold circle timer on dark gradient", width |-> 1080,
       height |-> 1080, bg_color |-> "#000000", text_color |-> "#d4af37", font_size |-> 90,
       wedge_color |-> "#d4af37", wedge_alpha |-> 160, ring_color |-> "#d4af37",
       ring_width |-> 5, tick_color |-> "#d4af37", tick_major_len |-> 25,
       tick_minor_len |-> 12, show_ticks |-> TRUE, show_hour_numbers |-> TRUE,
       hour_number_color |-> "#8a7a2a", center_dot |-> TRUE, center_dot_color |-> "#d4af37",
       glow |-> TRUE, gradient_bg |-> TRUE, gradient_colors |-> <<"#1a1a1a", "#000000">> ] ],
    [key |-> "circle-sport", cfg |->
      [
       class |-> "CircleTimerConfig", name |-> "circle-sport",
       description |-> "Sporty red circle timer with bold digits", width |-> 1080,
       height |-> 1080, bg_color |-> "#111111", text_color |-> "#ff1744", font_size |-> 100,
       wedge_color |-> "#ff1744", wedge_alpha |-> 180, ring_color |-> "#ff1744",
       ring_width |-> 6, tick_color |-> "#ff1744", tick_major_len |-> 30,
       tick_minor_len |-> 15, show_ticks |-> TRUE, show_hour_numbers |-> FALSE,
       hour_number_color |-> "#666", center_dot |-> TRUE, center_dot_color |-> "#ff1744",
       glow |-> FALSE, gradient_bg |-> FALSE, gradient_colors |-> <<>> ] ],
    [key |-> "circle-elegant", cfg |->
      [
       class |-> "CircleTimerConfig", name |-> "circle-elegant",
       description |-> "Elegant cream circle timer with brown wedge", width |-> 1080,
       height |-> 1080, bg_color |-> "#f5f0e8", text_color |-> "#3e2723", font_size |-> 80,
       wedge_color |-> "#8d6e63", wedge_alpha |-> 150, ring_color |-> "#3e2723",
       ring_width |-> 3, tick_color |-> "#8d6e63", tick_major_len |-> 25,
       tick_minor_len |-> 12, show_ticks |-> TRUE, show_hour_numbers |-> TRUE,
       hour_number_color |-> "#8d6e63", center_dot |-> TRUE, center_dot_color |-> "#3e2723",
       glow |-> FALSE, gradient_bg |-> FALSE, gradient_colors |-> <<>> ] ]
  >>

-----------------------------------------------------------------------------
(* Rendering helpers *)

(* Mutation of format_time: the minutes are not reduced modulo the hour *)
format_time_minutes_not_reduced(total_seconds) ==
    LET h == total_seconds \div 3600
        m == total_seconds \div 60
        s == total_seconds % 60
    IN  <<FormatD(h, 2), FormatD(m, 2), FormatD(s, 2)>>

(* format_time: h, m, s by floor division and remainder, each as "02d" *)
format_time(total_seconds) ==
    LET h == total_seconds \div 3600
        m == (total_seconds % 3600) \div 60
        s == total_seconds % 60
    IN  <<FormatD(h, 2), FormatD(m, 2), FormatD(s, 2)>>

(* int(x) of a float: truncation towards zero *)
IntTrunc(p) == IF p[1] >= 0 THEN p[1] \div p[2] ELSE -((-p[1]) \div p[2])

(* A conditional drawing step: its operations when the flag holds, else none *)
When(flag, ops) == IF flag THEN ops ELSE <<>>

(* Truthiness of an optional string / tuple field *)
Truthy(v) == v # NONE /\ v # ""
TruthyTuple(v) == Len(v) > 0

(* The colour strings of the catalogs, character by character *)
ColorChars ==
    "#0a0a0a" :> <<"#", "0", "a", "0", "a", "0", "a">> @@
    "#00e5ff" :> <<"#", "0", "0", "e", "5", "f", "f">> @@
    "#555555" :> <<"#", "5", "5", "5", "5", "5", "5">> @@
    "#000" :> <<"#", "0", "0", "0">> @@
    "#1a1a2e" :> <<"#", "1", "a", "1", "a", "2", "e">> @@
    "#000000" :> <<"#", "0", "0", "0", "0", "0", "0">> @@
    "#ffffff" :> <<"#", "f", "f", "f", "f", "f", "f">> @@
    "#888" :> <<"#", "8", "8", "8">> @@
    "#0d0221" :> <<"#", "0", "d", "0", "2", "2", "1">> @@
    "#ff2afc" :> <<"#", "f", "f", "2", "a", "f", "c">> @@
    "#555" :> <<"#", "5", "5", "5">> @@
    "#333333" :> <<"#", "3", "3", "3", "3", "3", "3">> @@
    "#aaaaaa" :> <<"#", "a", "a", "a", "a", "a", "a">> @@
    "#1a1000" :> <<"#", "1", "a", "1", "0", "0", "0">> @@
    "#ff8c00" :> <<"#", "f", "f", "8", "c", "0", "0">> @@
    "#332200" :> <<"#", "3", "3", "2", "2", "0", "0">> @@
    "#0f0a00" :> <<"#", "0", "f", "0", "a", "0", "0">> @@
    "#dddddd" :> <<"#", "d", "d", "d", "d", "d", "d">> @@
    "#0c0c0c" :> <<"#", "0", "c", "0", "c", "0", "c">> @@
    "#00ff41" :> <<"#", "0", "0", "f", "f", "4", "1">> @@
    "#006b1a" :> <<"#", "0", "0", "6", "b", "1", "a">> @@
    "#d4af37" :> <<"#", "d", "4", "a", "f", "3", "7">> @@
    "#111111" :> <<"#", "1", "1", "1", "1", "1", "1">> @@
    "#ff1744" :> <<"#", "f", "f", "1", "7", "4", "4">> @@
    "#666666" :> <<"#", "6", "6", "6", "6", "6", "6">> @@
    "#1c1c1c" :> <<"#", "1", "c", "1", "c", "1", "c">> @@
    "#f5f0e8" :> <<"#", "f", "5", "f", "0", "e", "8">> @@
    "#3e2723" :> <<"#", "3", "e", "2", "7", "2", "3">> @@
    "#8d6e63" :> <<"#", "8", "d", "6", "e", "6", "3">> @@
    "#e53935" :> <<"#", "e", "5", "3", "9", "3", "5">> @@
    "#90caf9" :> <<"#", "9", "0", "c", "a", "f", "9">> @@
    "#cccccc" :> <<"#", "c", "c", "c", "c", "c", "c">> @@
    "#aaa" :> <<"#", "a", "a", "a">> @@
    "#ffffffcc" :> <<"#", "f", "f", "f", "f", "f", "f", "c", "c">> @@
    "#ddd" :> <<"#", "d", "d", "d">> @@
    "#8a7a2a" :> <<"#", "8", "a", "7", "a", "2", "a">> @@
    "#666" :> <<"#", "6", "6", "6">> @@
    "#667eea" :> <<"#", "6", "6", "7", "e", "e", "a">> @@
    "#764ba2" :> <<"#", "7", "6", "4", "b", "a", "2">> @@
    "#1a1a1a" :> <<"#", "1", "a", "1", "a", "1", "a">>

HEXDIGITS == <<"0", "1", "2", "3", "4", "5", "6", "7", "8", "9",
               "a", "b", "c", "d", "e", "f">>
HEXUPPER == <<"A", "B", "C", "D", "E", "F">>

IsHexDigit(c) == (\E i \in 1..16 : HEXDIGITS[i] = c) \/ (\E i \in 1..6 : HEXUPPER[i] = c)
HexValue(c) ==
    IF \E i \in 1..16 : HEXDIGITS[i] = c
    THEN (CHOOSE i \in 1..16 : HEXDIGITS[i] = c) - 1
    ELSE (CHOOSE i \in 1..6 : HEXUPPER[i] = c) + 9

(* str.lstrip("#") *)
RECURSIVE lstrip(_, _)
lstrip(s, c) == IF s # <<>> /\ Head(s) = c THEN lstrip(Tail(s), c) ELSE s

(* The slice s[i:i + 2] of a string (i counted from 0), clipped at its end *)
Slice2(s, i) == SubSeq(s, Min(i, Len(s)) + 1, Min(i + 2, Len(s)))

(* int(s, 16) on a string of hexadecimal digits; ValueError on the empty    *)
(* string and on any other character (the catalogs hold no sign, blank or  *)
(* prefix, which int would accept)                                          *)
RECURSIVE HexNumber(_)
HexNumber(s) == IF s = <<>> THEN 0 ELSE 16 * HexNumber(SubSeq(s, 1, Len(s) - 1)) + HexValue(s[Len(s)])
Int16Raises(s) == s = <<>> \/ \E k \in 1..Len(s) : ~IsHexDigit(s[k])

(* What a hex_to_rgb call gives: the tuple, or the ValueError of int() *)
Resolved(color, rgb) == [kind |-> "rgb", hex |-> color, rgb |-> rgb]
ValueError(color) == [kind |-> "ValueError", hex |-> color]

(* hex_to_rgb on a string: lines 598-600 *)
hex_to_rgb_str(color) ==
    LET c == lstrip(ColorChars[color], "#")
    IN  IF \E i \in {0, 2, 4} : Int16Raises(Slice2(c, i))
        THEN ValueError(color)
        ELSE Resolved(color, <<HexNumber(Slice2(c, 0)), HexNumber(Slice2(c, 2)),
                               HexNumber(Slice2(c, 4))>>)

(* What hex_to_rgb gives on each colour string of the catalogs *)
HexToRgb == [color \in DOMAIN ColorChars |-> hex_to_rgb_str(color)]

(* Mutation of hex_to_rgb: the leading '#' is not stripped *)
hex_to_rgb_no_strip(color) ==
    LET c == ColorChars[color]
    IN  IF \E i \in {0, 2, 4} : Int16Raises(Slice2(c, i))
        THEN ValueError(color)
        ELSE Resolved(color, <<HexNumber(Slice2(c, 0)), HexNumber(Slice2(c, 2)),
                               HexNumber(Slice2(c, 4))>>)

(* hex_to_rgb: lines 595-600, for the colours of the catalogs *)
hex_to_rgb(color) == HexToRgb[color]

(* The colours a sequence of drawing operations was given *)
ColorsOf(ops) ==
    {ops[k].color : k \in {j \in 1..Len(ops) : "color" \in DOMAIN ops[j]}}
    \cup UNION {{ops[k].colors[1], ops[k].colors[2]} :
                  k \in {j \in 1..Len(ops) : "colors" \in DOMAIN ops[j]}}

(* The image a compositor returns, unless one of the hex_to_rgb calls it  *)
(* made raised: then the exception leaves the compositor. The drawing    *)
(* operations are bound once, as the compositor performs them once        *)
Composed(mode, size, ops, resolved) ==
    CHOOSE image \in
        {IF \E c \in ColorsOf(drawn) \cup resolved : c.kind = "ValueError"
         THEN [kind |-> "raised", error |-> "ValueError"]
         ELSE [kind |-> "image", mode |-> mode, size |-> size, ops |-> drawn] :
            drawn \in {ops}} : TRUE

(* draw_glow: one layer per i = layers..1, alpha int(40 / i), offsets within *)
(* the disc dx^2 + dy^2 <= (2i)^2                                           *)
GlowOffsets(i) ==
    {d \in ((-2 * i)..(2 * i)) \X ((-2 * i)..(2 * i)) :
        d[1] * d[1] + d[2] * d[2] <= (2 * i) * (2 * i)}

(* Mutation of draw_glow: every layer has the opacity of the first *)
draw_glow_flat_opacity(text, x, y, color, layers) ==
    [k \in 1..layers |->
        LET i == layers + 1 - k
        IN  [op |-> "glow_layer", text |-> text, at |-> <<x, y>>, color |-> hex_to_rgb(color),
             i |-> i, alpha |-> 40,
             copies |-> Cardinality(GlowOffsets(i))]]

draw_glow(text, x, y, color, layers) ==
    [k \in 1..layers |->
        LET i == layers + 1 - k
        IN  [op |-> "glow_layer", text |-> text, at |-> <<x, y>>, color |-> hex_to_rgb(color),
             i |-> i, alpha |-> IntTrunc(RatDiv(40, i)),
             copies |-> Cardinality(GlowOffsets(i))]]

(* draw_circle_progress: background circle, then the arc if progress > 0 *)
draw_circle_progress(cx, cy, radius, progress, color, width) ==
    <<[op |-> "arc", at |-> <<cx, cy>>, radius |-> radius, start |-> RatInt(0),
       end |-> RatInt(360), color |-> hex_to_rgb(color), alpha |-> 60, width |-> width]>>
    \o When(RatLess(RatInt(0), progress),
         <<[op |-> "arc", at |-> <<cx, cy>>, radius |-> radius, start |-> RatInt(-90),
            end |-> RatAdd(RatInt(-90), RatMul(RatInt(360), progress)),
            color |-> hex_to_rgb(color), alpha |-> 255, width |-> width * 2]>>)

(* The background: Image.new with bg_color, then the gradient if enabled *)
Background(style) ==
    <<[op |-> "new", mode |-> "RGBA", size |-> <<style.width, style.height>>,
       color |-> hex_to_rgb(style.bg_color), alpha |-> 255]>>
    \o When(style.gradient_bg /\ TruthyTuple(style.gradient_colors),
         <<[op |-> "gradient", size |-> <<style.width, style.height>>,
            colors |-> <<hex_to_rgb(style.gradient_colors[1]),
                         hex_to_rgb(style.gradient_colors[2])>>]>>)

-----------------------------------------------------------------------------
(* Frame renderer *)

(* Mutation of progress_ratio: the elapsed share is taken for the remaining one *)
progress_ratio_not_inverted(total_seconds, total_duration) ==
    IF total_duration > 0
    THEN RatDiv(total_seconds, total_duration)
    ELSE RatInt(1)

(* render_frame, line 662 *)
progress_ratio(total_seconds, total_duration) ==
    IF total_duration > 0
    THEN RatSub(RatInt(1), RatDiv(total_seconds, total_duration))
    ELSE RatInt(1)

(* render_frame, line 663 *)
time_text_of(style, total_seconds) ==
    LET t == format_time(total_seconds)
    IN  Text(t[1]) \o style.separator \o Text(t[2]) \o style.separator \o Text(t[3])

(* Mutation of fill_width: the width is rounded up past the product *)
fill_width_past_product(bar_w, progress) == IntTrunc(RatMul(RatInt(bar_w), progress)) + 1

(* render_frame, line 752: fill_w = int(bar_w * progress) *)
fill_width(bar_w, progress) == IntTrunc(RatMul(RatInt(bar_w), progress))

render_frame(style, total_seconds, total_duration) ==
    LET w == style.width
        h == style.height
        progress == progress_ratio(total_seconds, total_duration)
        time_text == time_text_of(style, total_seconds)
        cx == w \div 2
        cy == h \div 2
        bw == style.border_width
        bar_margin == 80
        bar_w == w - bar_margin * 2
        bar_y == h - 40
        fill_w == fill_width(bar_w, progress)
        ops ==
            Background(style)
            \o When(style.border,
                 <<[op |-> "rectangle", box |-> <<bw \div 2, bw \div 2, w - bw \div 2, h - bw \div 2>>,
                    color |-> hex_to_rgb(style.border_color), width |-> bw]>>)
            \o When(style.rounded_bg /\ Truthy(style.digit_bg_color),
                 <<[op |-> "rounded_rect", at |-> <<cx, cy>>, pad |-> <<60, 40>>,
                    color |-> hex_to_rgb(style.digit_bg_color), radius |-> 30]>>)
            \o When(style.circle_progress,
                 draw_circle_progress(cx, cy, Min(w, h) \div 2 - 60, progress,
                                      style.circle_color, 8))
            \o When(style.glow, draw_glow(time_text, cx, cy, style.text_color, 4))
            \o <<[op |-> "text", text |-> time_text, at |-> <<cx, cy>>,
                  color |-> hex_to_rgb(style.text_color), size |-> style.font_size]>>
            \o When(style.show_labels,
                 <<[op |-> "labels", text |-> <<"HOURS", "MINUTES", "SECONDS">>,
                    color |-> hex_to_rgb(style.label_color), size |-> style.font_size \div 6]>>)
            \o When(style.progress_bar,
                 <<[op |-> "bar_track", box |-> <<bar_margin, bar_y, bar_margin + bar_w, bar_y + 6>>,
                    color |-> hex_to_rgb(style.progress_color), alpha |-> 40]>>
                 \o When(fill_w > 0,
                      <<[op |-> "bar_fill", box |-> <<bar_margin, bar_y, bar_margin + fill_w, bar_y + 6>>,
                         color |-> hex_to_rgb(style.progress_color), alpha |-> 255]>>))
    IN  Composed("RGB", <<w, h>>, ops, {})

-----------------------------------------------------------------------------
(* Circle (Time Timer) frame renderer *)

(* render_circle_frame, line 771 *)
remaining_ratio_of(total_seconds, total_duration) ==
    IF total_duration > 0 THEN RatDiv(total_seconds, total_duration) ELSE RatInt(0)

(* render_circle_frame, lines 816-834: the ticks that are drawn *)
TickMark(style, radius, i) ==
    LET is_major == (i % 5 = 0)
        tick_len == IF is_major THEN style.tick_major_len ELSE style.tick_minor_len
    IN  [op |-> "tick", i |-> i, angle |-> i * 6 - 90, major |-> is_major,
         inner |-> radius - style.ring_width - tick_len,
         outer |-> radius - style.ring_width,
         color |-> hex_to_rgb(style.tick_color), width |-> IF is_major THEN 3 ELSE 1]

(* Mutation of TickDrawn: a position of length 0 is drawn as well *)
TickDrawn_ZeroLengthToo(style, i) ==
    (IF i % 5 = 0 THEN style.tick_major_len ELSE style.tick_minor_len) >= 0

(* render_circle_frame, lines 819-822: the position is not skipped *)
TickDrawn(style, i) ==
    (IF i % 5 = 0 THEN style.tick_major_len ELSE style.tick_minor_len) > 0

(* for i in range(60): the positions that are not skipped, in order *)
TickMarks(style, radius) ==
    SelectSeq([k \in 1..60 |-> TickMark(style, radius, k - 1)],
              LAMBDA t : TickDrawn(style, t.i))

HourNumbers(style, radius) ==
    [i \in 1..12 |->
        [op |-> "hour_number", text |-> Text(DecimalDigits((i - 1) * 2)),
         angle |-> (i - 1) * 30 - 90,
         r |-> radius - style.ring_width
               - Max(style.tick_major_len, style.tick_minor_len) - 30,
         color |-> hex_to_rgb(style.hour_number_color), size |-> style.font_size \div 3]]

(* Mutation of Wedge: the layer is made for a ratio of 0 as well *)
Wedge_AtZeroToo(style, cx, cy, radius, remaining_ratio) ==
    When(RatLeq(RatInt(0), remaining_ratio),
      LET sweep_angle == RatMul(remaining_ratio, RatInt(360))
          start_angle == RatInt(-90)
          end_angle == RatAdd(start_angle, sweep_angle)
      IN  <<[op |-> "wedge_layer", at |-> <<cx, cy>>, radius |-> radius,
             start |-> start_angle, end |-> end_angle,
             color |-> hex_to_rgb(style.wedge_color), alpha |-> style.wedge_alpha]>>)

(* render_circle_frame, lines 790-809: the wedge layer, if any *)
Wedge(style, cx, cy, radius, remaining_ratio) ==
    When(RatLess(RatInt(0), remaining_ratio),
      LET sweep_angle == RatMul(remaining_ratio, RatInt(360))
          start_angle == RatInt(-90)
          end_angle == RatAdd(start_angle, sweep_angle)
      IN  <<[op |-> "wedge_layer", at |-> <<cx, cy>>, radius |-> radius,
             start |-> start_angle, end |-> end_angle,
             color |-> hex_to_rgb(style.wedge_color), alpha |-> style.wedge_alpha]>>)

(* render_circle_frame, lines 786-788: wedge_rgb, ring_rgb, tick_rgb, *)
(* resolved whatever is drawn                                         *)
circle_rgb(style) ==
    <<hex_to_rgb(style.wedge_color), hex_to_rgb(style.ring_color),
      hex_to_rgb(style.tick_color)>>

render_circle_frame(style, total_seconds, total_duration) ==
    LET w == style.width
        h == style.height
        t == format_time(total_seconds)
        remaining_ratio == remaining_ratio_of(total_seconds, total_duration)
        time_text == Text(t[1]) \o ":" \o Text(t[2]) \o ":" \o Text(t[3])
        cx == w \div 2
        cy == h \div 2
        margin == 80
        radius == Min(w, h) \div 2 - margin
        ops ==
            Background(style)
            \o Wedge(style, cx, cy, radius, remaining_ratio)
            \o <<[op |-> "ring", at |-> <<cx, cy>>, radius |-> radius,
                  color |-> hex_to_rgb(style.ring_color), width |-> style.ring_width]>>
            \o When(style.show_ticks, TickMarks(style, radius))
            \o When(style.show_hour_numbers, HourNumbers(style, radius))
            \o When(style.center_dot,
                 <<[op |-> "center_dot", at |-> <<cx, cy>>, radius |-> 8,
                    color |-> hex_to_rgb(style.center_dot_color)]>>)
            \o When(style.glow, draw_glow(time_text, cx, cy, style.text_color, 3))
            \o <<[op |-> "text", text |-> time_text, at |-> <<cx, cy>>,
                  color |-> hex_to_rgb(style.text_color), size |-> style.font_size]>>
    IN  Composed("RGB", <<w, h>>, ops,
                 {circle_rgb(style)[k] : k \in 1..Len(circle_rgb(style))})

-----------------------------------------------------------------------------
(* Main generation logic *)

(* ALL_STYLES = {**STYLES, **CIRCLE_STYLES} *)
ALL_STYLES == DictUpdate(STYLES, CIRCLE_STYLES)

IsCircle(style) == style.class = "CircleTimerConfig"

(* A compositor call: its arguments, the ratio it computes and its result *)
FrameCall(style, total_seconds, total_duration) ==
    [fn |-> "render_frame", style |-> style.name,
     total_seconds |-> total_seconds, total_duration |-> total_duration,
     ratio |-> progress_ratio(total_seconds, total_duration), rgb |-> <<>>,
     img |-> render_frame(style, total_seconds, total_duration)]

CircleCall(style, total_seconds, total_duration) ==
    [fn |-> "render_circle_frame", style |-> style.name,
     total_seconds |-> total_seconds, total_duration |-> total_duration,
     ratio |-> remaining_ratio_of(total_seconds, total_duration),
     rgb |-> circle_rgb(style),
     img |-> render_circle_frame(style, total_seconds, total_duration)]

(* The dispatch both generate_frames and preview_style make *)
Render(style, total_seconds, total_duration) ==
    IF IsCircle(style)
    THEN CircleCall(style, total_seconds, total_duration)
    ELSE FrameCall(style, total_seconds, total_duration)

(* os.path.join of two relative components *)
PathJoin(a, b) == IF a = "" THEN b ELSE a \o "/" \o b

frame_dir_of(output_dir, name) == PathJoin(output_dir, name)

(* Mutation of frame_path: the six-digit pattern of the module docstring, *)
(* in a directory that does not depend on the run                         *)
frame_path_06d(frame_dir, n) ==
    PathJoin(frame_dir, "frame_" \o Text(FormatD(n, 6)) \o ".png")

(* os.path.join(frame_dir, f"frame_{frame_num:08d}.png") *)
frame_path(frame_dir, n) ==
    PathJoin(frame_dir, "frame_" \o Text(FormatD(n, 8)) \o ".png")

(* os.path.join(output_dir, f"preview_{style_name}.png") *)
preview_path(output_dir, name) == PathJoin(output_dir, "preview_" \o name \o ".png")

(* Mutation of preview_seconds: the minutes and seconds are dropped *)
preview_seconds_noon == 12 * 3600

(* Preview at 12:34:56 (representative time) *)
preview_seconds == 12 * 3600 + 34 * 60 + 56
PreviewTotal == 86400

(* argparse defaults *)
DefaultStyle == "modern"
DefaultFps == 30
DefaultDuration == 86400
DefaultStart == 86400
DefaultOutput == "output"

(* frames between two progress reports are fps * ReportSeconds *)
ReportSeconds == 60

-----------------------------------------------------------------------------
(* Inputs *)

StyleNames == {ALL_STYLES[i].key : i \in 1..Len(ALL_STYLES)}
UnknownNames == {"nope", "all"}
FpsValues == (-1)..MaxFps
DurationValues == (-1)..MaxDuration
StartValues == (-1)..MaxStart

Args(entry, style, fps, duration, start, list_styles, preview, preview_all) ==
    [entry |-> entry, style |-> style, output |-> DefaultOutput, fps |-> fps,
     duration |-> duration, start |-> start, list_styles |-> list_styles,
     preview |-> preview, preview_all |-> preview_all]

(* The styles run on their own; "all" runs every style *)
SingleStyles == {DefaultStyle, "circle-classic"}

(* The end-to-end scenario: modern, fps 1, duration 3, start 10 *)
Scenario == Args("main", DefaultStyle, 1, 3, 10, FALSE, FALSE, FALSE)

(* --style all: the runs of all the styles, at the ends of the ranges *)
AllStylesCalls ==
    {Args("main", "all", f, d, st, FALSE, FALSE, FALSE) :
        f \in {0, 1, MaxFps}, d \in {0, MaxDuration}, st \in {0, MaxStart}}

(* main: --style is restricted by argparse to the catalog names and "all" *)
MainCalls ==
    {Args("main", s, f, d, st, FALSE, FALSE, FALSE) :
        s \in SingleStyles, f \in FpsValues, d \in DurationValues, st \in StartValues}
    \cup AllStylesCalls
    \cup {Scenario}
    \cup {Args("main", s, DefaultFps, DefaultDuration, DefaultStart, FALSE, TRUE, FALSE) :
        s \in StyleNames \cup {"all"}}
    \cup {Args("main", s, DefaultFps, DefaultDuration, DefaultStart, FALSE, p, TRUE) :
        s \in {DefaultStyle, "all"}, p \in BOOLEAN}
    \cup {Args("main", s, DefaultFps, DefaultDuration, DefaultStart, TRUE, p, pa) :
        s \in {DefaultStyle, "all"}, p \in BOOLEAN, pa \in BOOLEAN}

(* generate_frames and preview_style called directly, with any name *)
DirectCalls ==
    {Args("generate_frames", s, f, d, st, FALSE, FALSE, FALSE) :
        s \in UnknownNames \cup SingleStyles, f \in FpsValues, d \in DurationValues,
        st \in StartValues}
    \cup {Args("preview_style", s, DefaultFps, DefaultDuration, DefaultStart, FALSE, FALSE, FALSE) :
        s \in UnknownNames \cup StyleNames}

-----------------------------------------------------------------------------
(* The program *)

Idle ==
    /\ style_name = NONE
    /\ total_frames = 0
    /\ second = 0
    /\ next_second = 0
    /\ visited = <<>>
    /\ sub_frame = 0
    /\ frame_num = 0
    /\ img = NoImage
    /\ run = 0
    /\ files = <<>>
    /\ dirs = {}
    /\ stdout = <<>>
    /\ exit_code = NotExited
    /\ renders = <<>>
    /\ ft_ret = <<>>
    /\ font_ret = <<>>

Init ==
    /\ call \in MainCalls \cup DirectCalls
    /\ pc = "start"
    /\ Idle
    /\ queue = <<>>
    /\ ft_arg = 0
    /\ font_env = <<>>

Emit(lines) == stdout' = stdout \o lines

(* A compositor call as the log keeps it: the call and the run that made it *)
Logged(r, k) ==
    [fn |-> r.fn, style |-> r.style, total_seconds |-> r.total_seconds,
     total_duration |-> r.total_duration, ratio |-> r.ratio, rgb |-> r.rgb,
     img |-> r.img, run |-> k]

(* Where a returning generate_frames / preview_style goes: back into main's *)
(* loop, or, called directly, to the end of the process                     *)
Return(main_pc) ==
    IF call.entry = "main"
    THEN /\ pc' = main_pc
         /\ exit_code' = exit_code
    ELSE /\ pc' = "done"
         /\ exit_code' = <<0>>

(* generate_frames, lines 897-909: up to the outer loop *)
StartRun(name) ==
    /\ style_name' = name
    /\ dirs' = dirs \cup {frame_dir_of(call.output, name)}
    /\ total_frames' = call.duration * call.fps
    /\ frame_num' = 0
    /\ Emit(<<[line |-> "generating", name |-> name,
               total_frames |-> call.duration * call.fps, fps |-> call.fps],
              [line |-> "resolution",
               size |-> <<DictGet(ALL_STYLES, name).width,
                          DictGet(ALL_STYLES, name).height>>],
              [line |-> "output", dir |-> frame_dir_of(call.output, name)],
              [line |-> "duration", duration |-> call.duration]>>)
    /\ next_second' = call.start
    /\ visited' = <<>>
    /\ pc' = "gen_loop"
    /\ exit_code' = exit_code

(* Mutation of RejectUnknown: an unknown name silently falls back to the default *)
RejectUnknown_Fallback(name) == StartRun(DefaultStyle)

(* generate_frames, lines 893-895: the style is unknown *)
RejectUnknown(name) ==
    /\ Emit(<<[line |-> "unknown_style", name |-> name],
              [line |-> "available", names |-> DictKeys(ALL_STYLES)]>>)
    /\ exit_code' = <<1>>                                    \* sys.exit(1)
    /\ pc' = "done"
    /\ style_name' = name
    /\ UNCHANGED <<total_frames, next_second, visited, frame_num, dirs>>

(* generate_frames up to its outer loop: lines 892-909 *)
generate_frames(name) ==
    /\ run' = run + 1
    /\ IF ~HasKey(ALL_STYLES, name) THEN RejectUnknown(name) ELSE StartRun(name)
    /\ UNCHANGED <<second, sub_frame, img, files, renders>>

(* Mutation of RangeHasNext: the stop value itself is yielded too *)
RangeHasNext_StopIncluded(n) == n >= call.start - call.duration - 1

(* range(start_seconds, start_seconds - duration - 1, -1) has a next value *)
RangeHasNext(n) == n > call.start - call.duration - 1

(* Mutation of BreakCheck: the loop stops one second early, before 00:00:00 *)
BreakCheck_AtZero(s) == s <= 0

(* if second < 0: break *)
BreakCheck(s) == s < 0

(* Mutation of NeedsRender: every sub-frame is rendered anew *)
NeedsRender_Always(sf) == TRUE

(* if sub_frame == 0: render *)
NeedsRender(sf) == sf = 0

(* for second in range(start_seconds, start_seconds - duration - 1, -1), *)
(* with a second >= 0: the inner loop starts                             *)
ForSecond ==
    /\ pc = "gen_loop"
    /\ RangeHasNext(next_second)
    /\ ~BreakCheck(next_second)
    /\ second' = next_second
    /\ next_second' = next_second - 1
    /\ visited' = Append(visited, next_second)
    /\ sub_frame' = 0
    /\ pc' = "gen_sub"
    /\ UNCHANGED <<call, queue, style_name, total_frames, frame_num, img, run, files,
                   dirs, stdout, exit_code, renders, ft_arg, ft_ret, font_env, font_ret>>

(* One iteration of for sub_frame in range(fps): lines 915-937 *)
SubFrame ==
    /\ pc = "gen_sub"
    /\ sub_frame < call.fps
    /\ \E rendered \in {IF NeedsRender(sub_frame)
                         THEN Render(DictGet(ALL_STYLES, style_name), second, call.start)
                         ELSE [img |-> img]} :
       LET image == rendered.img
           frame_dir == frame_dir_of(call.output, style_name)
           n == frame_num + 1
           every == call.fps * ReportSeconds
       IN  IF NeedsRender(sub_frame) /\ rendered.img.kind = "raised"
           THEN /\ renders' = Append(renders, Logged(rendered, run))
                /\ Emit(<<[line |-> "Traceback", error |-> rendered.img.error]>>)
                /\ exit_code' = <<1>>
                /\ pc' = "done"
                /\ UNCHANGED <<img, files, frame_num>>
           ELSE /\ renders' = IF NeedsRender(sub_frame)
                              THEN Append(renders, Logged(rendered, run))
                              ELSE renders
                /\ img' = image
                /\ files' = Append(files, [path |-> frame_path(frame_dir, frame_num),
                                           img |-> image, run |-> run])
                /\ frame_num' = n
                /\ IF n % every # 0
                   THEN /\ pc' = "gen_sub"
                        /\ UNCHANGED <<stdout, exit_code>>
                   ELSE IF total_frames = 0
                   THEN /\ Emit(<<[line |-> "ZeroDivisionError"]>>)
                        /\ exit_code' = <<1>>
                        /\ pc' = "done"
                   ELSE /\ Emit(<<[line |-> "progress", frame_num |-> n,
                                    total_frames |-> total_frames,
                                    percent |-> (n * 100) \div total_frames,
                                    time |-> format_time(second),
                                    remaining_minutes |-> (total_frames - n) \div every]>>)
                        /\ pc' = "gen_sub"
                        /\ exit_code' = exit_code
    /\ sub_frame' = sub_frame + 1
    /\ UNCHANGED <<call, queue, style_name, total_frames, second, next_second, visited, run,
                   dirs,
                   ft_arg, ft_ret, font_env, font_ret>>

(* range(fps) is exhausted: back to the outer loop *)
SubFramesEnd ==
    /\ pc = "gen_sub"
    /\ sub_frame >= call.fps
    /\ pc' = "gen_loop"
    /\ UNCHANGED <<call, queue, style_name, total_frames, second, next_second, visited,
                   sub_frame,
                   frame_num, img, run, files, dirs, stdout, exit_code, renders,
                   ft_arg, ft_ret, font_env, font_ret>>

(* The outer loop ends (range exhausted, or break on second < 0): lines 939-942 *)
GenerateDone ==
    /\ pc = "gen_loop"
    /\ \/ ~RangeHasNext(next_second)
       \/ BreakCheck(next_second)
    /\ Emit(<<[line |-> "done", frame_num |-> frame_num,
               dir |-> frame_dir_of(call.output, style_name)],
              [line |-> "ffmpeg", fps |-> call.fps, name |-> style_name]>>)
    /\ Return("main_generate")
    /\ UNCHANGED <<call, queue, style_name, total_frames, second, next_second, visited,
                   sub_frame,
                   frame_num, img, run, files, dirs, renders, ft_arg, ft_ret, font_env, font_ret>>

(* preview_style: lines 945-962 *)
preview_style(name, main_pc) ==
    /\ run' = run + 1
    /\ IF ~HasKey(ALL_STYLES, name)
       THEN /\ Emit(<<[line |-> "unknown_style", name |-> name]>>)
            /\ UNCHANGED <<dirs, renders, files>>
       ELSE LET style == DictGet(ALL_STYLES, name)
                rendered == Render(style, preview_seconds, PreviewTotal)
                path == preview_path(call.output, name)
            IN  /\ dirs' = dirs \cup {call.output}
                /\ renders' = Append(renders, Logged(rendered, run + 1))
                /\ IF rendered.img.kind = "raised"
                   THEN /\ Emit(<<[line |-> "Traceback", error |-> rendered.img.error]>>)
                        /\ UNCHANGED files
                   ELSE /\ files' = Append(files, [path |-> path, img |-> rendered.img,
                                                   run |-> run + 1])
                        /\ Emit(<<[line |-> "preview_saved", path |-> path]>>)
    /\ IF HasKey(ALL_STYLES, name)
          /\ Render(DictGet(ALL_STYLES, name), preview_seconds, PreviewTotal).img.kind = "raised"
       THEN /\ pc' = "done"
            /\ exit_code' = <<1>>
       ELSE Return(main_pc)

(* Mutation of list_styles_lines: only the digital catalog is listed *)
list_styles_lines_digital_only ==
    <<[line |-> "list_header"]>>
    \o [i \in 1..Len(STYLES) |->
          [line |-> "style", name |-> STYLES[i].key,
           description |-> STYLES[i].cfg.description]]
    \o <<[line |-> "total", n |-> Len(ALL_STYLES)]>>

(* --list-styles: lines 1038-1042 *)
list_styles_lines ==
    <<[line |-> "list_header"]>>
    \o [i \in 1..Len(ALL_STYLES) |->
          [line |-> "style", name |-> ALL_STYLES[i].key,
           description |-> ALL_STYLES[i].cfg.description]]
    \o <<[line |-> "total", n |-> Len(ALL_STYLES)]>>

(* main: lines 1035-1064, up to the first call it makes *)
main ==
    /\ pc = "start"
    /\ call.entry = "main"
    /\ IF call.list_styles
       THEN /\ Emit(list_styles_lines)
            /\ pc' = "done"
            /\ exit_code' = <<0>>
            /\ queue' = queue
       ELSE IF call.preview_all
       THEN /\ Emit(<<[line |-> "preview_all_header"]>>)
            /\ queue' = DictKeys(ALL_STYLES)
            /\ pc' = "main_preview_all"
            /\ exit_code' = exit_code
       ELSE /\ queue' = IF call.style = "all" THEN DictKeys(ALL_STYLES) ELSE <<call.style>>
            /\ pc' = IF call.preview THEN "main_preview" ELSE "main_generate"
            /\ UNCHANGED <<stdout, exit_code>>
    /\ UNCHANGED <<call, style_name, total_frames, second, next_second, visited,
                   sub_frame,
                   frame_num, img, run, files, dirs, renders, ft_arg, ft_ret, font_env, font_ret>>

(* main's loops: the next preview_style call *)
MainPreview ==
    /\ pc \in {"main_preview", "main_preview_all"}
    /\ queue # <<>>
    /\ preview_style(Head(queue), pc)
    /\ queue' = Tail(queue)
    /\ UNCHANGED <<call, style_name, total_frames, second, next_second, visited,
                   sub_frame,
                   frame_num, img, ft_arg, ft_ret, font_env, font_ret>>

(* main's loops: the next generate_frames call *)
MainGenerate ==
    /\ pc = "main_generate"
    /\ queue # <<>>
    /\ generate_frames(Head(queue))
    /\ queue' = Tail(queue)
    /\ UNCHANGED <<call, ft_arg, ft_ret, font_env, font_ret>>

(* main returns: the process ends with status 0 *)
MainReturn ==
    /\ pc \in {"main_preview", "main_preview_all", "main_generate"}
    /\ queue = <<>>
    /\ IF pc = "main_preview_all"
       THEN Emit(<<[line |-> "all_previews_saved", dir |-> call.output]>>)
       ELSE stdout' = stdout
    /\ pc' = "done"
    /\ exit_code' = <<0>>
    /\ UNCHANGED <<call, queue, style_name, total_frames, second, next_second, visited,
                   sub_frame,
                   frame_num, img, run, files, dirs, renders, ft_arg, ft_ret, font_env, font_ret>>

(* generate_frames called directly *)
CallGenerateFrames ==
    /\ pc = "start"
    /\ call.entry = "generate_frames"
    /\ generate_frames(call.style)
    /\ UNCHANGED <<call, queue, ft_arg, ft_ret, font_env, font_ret>>

(* preview_style called directly *)
CallPreviewStyle ==
    /\ pc = "start"
    /\ call.entry = "preview_style"
    /\ preview_style(call.style, "done")
    /\ UNCHANGED <<call, queue, style_name, total_frames, second, next_second, visited,
                   sub_frame,
                   frame_num, img, ft_arg, ft_ret, font_env, font_ret>>

Next ==
    \/ main
    \/ MainPreview
    \/ MainGenerate
    \/ MainReturn
    \/ CallGenerateFrames
    \/ CallPreviewStyle
    \/ ForSecond
    \/ SubFrame
    \/ SubFramesEnd
    \/ GenerateDone

Spec == Init /\ [][Next]_vars

-----------------------------------------------------------------------------
(* format_time on its own *)

FormatInputs ==
    (0..MaxSmallSeconds)
    \cup {3599, 3600, 3601, 3661, 35999, 36000, preview_seconds, 86399, 86400, 86401,
          359999, 360000, 360001, 3600000}

InitFormat ==
    /\ call = Args("format_time", NONE, DefaultFps, DefaultDuration, DefaultStart,
                   FALSE, FALSE, FALSE)
    /\ pc = "format"
    /\ Idle
    /\ queue = <<>>
    /\ ft_arg \in FormatInputs
    /\ font_env = <<>>

FormatTimeCall ==
    /\ pc = "format"
    /\ ft_ret' = format_time(ft_arg)
    /\ pc' = "done"
    /\ UNCHANGED <<call, queue, style_name, total_frames, second, next_second, visited,
                   sub_frame, frame_num, img, run, files, dirs, stdout, exit_code,
                   renders, ft_arg, font_env, font_ret>>

NextFormat == FormatTimeCall

SpecFormat == InitFormat /\ [][NextFormat]_vars

-----------------------------------------------------------------------------
(* The compositors on their own: two calls on one style *)

RenderInputs == (0..MaxRemaining) \X (0..MaxTotal)

InitRender ==
    /\ call \in {Args("render", s, DefaultFps, DefaultDuration, DefaultStart,
                      FALSE, FALSE, FALSE) : s \in StyleNames}
    /\ pc = "render"
    /\ Idle
    /\ queue \in RenderInputs \X RenderInputs
    /\ ft_arg = 0
    /\ font_env = <<>>

(* The style argument of a direct compositor call: the catalog entry, or *)
(* that entry with show_ticks unset                                     *)
RenderStyle ==
    IF call.entry = "render_without_ticks"
    THEN [DictGet(ALL_STYLES, call.style) EXCEPT !.show_ticks = FALSE]
    ELSE DictGet(ALL_STYLES, call.style)

RenderFrameCall ==
    /\ pc = "render"
    /\ queue # <<>>
    /\ ~IsCircle(RenderStyle)
    /\ renders' = Append(renders,
          Logged(FrameCall(RenderStyle, Head(queue)[1], Head(queue)[2]),
                 run + 1))
    /\ run' = run + 1
    /\ queue' = Tail(queue)
    /\ UNCHANGED <<call, pc, style_name, total_frames, second, next_second, visited,
                   sub_frame, frame_num, img, files, dirs, stdout, exit_code,
                   ft_arg, ft_ret, font_env, font_ret>>

RenderCircleFrameCall ==
    /\ pc = "render"
    /\ queue # <<>>
    /\ IsCircle(RenderStyle)
    /\ renders' = Append(renders,
          Logged(CircleCall(RenderStyle, Head(queue)[1], Head(queue)[2]),
                 run + 1))
    /\ run' = run + 1
    /\ queue' = Tail(queue)
    /\ UNCHANGED <<call, pc, style_name, total_frames, second, next_second, visited,
                   sub_frame, frame_num, img, files, dirs, stdout, exit_code,
                   ft_arg, ft_ret, font_env, font_ret>>

NextRender == RenderFrameCall \/ RenderCircleFrameCall

SpecRender == InitRender /\ [][NextRender]_vars

(* render_circle_frame on its own, on every circular style as the catalog *)
(* has it and with show_ticks unset                                       *)
InitTicks ==
    /\ call \in {Args(e, s, DefaultFps, DefaultDuration, DefaultStart, FALSE, FALSE, FALSE) :
                    e \in {"render", "render_without_ticks"},
                    s \in {CIRCLE_STYLES[i].key : i \in 1..Len(CIRCLE_STYLES)}}
    /\ pc = "render"
    /\ Idle
    /\ queue \in RenderInputs \X RenderInputs
    /\ ft_arg = 0
    /\ font_env = <<>>

SpecTicks == InitTicks /\ [][RenderCircleFrameCall]_vars

-----------------------------------------------------------------------------
(* Vocabulary of the properties *)

(* The invocation runs generate_frames *)
GenerateMode ==
    \/ call.entry = "generate_frames"
    \/ call.entry = "main" /\ ~call.list_styles /\ ~call.preview_all /\ ~call.preview

(* A generate_frames call on a known style is under way / has returned *)
InRun == GenerateMode /\ run >= 1 /\ pc \in {"gen_loop", "gen_sub"}
RunFinished ==
    GenerateMode /\ run >= 1 /\ pc \in {"main_generate", "done"}
    /\ HasKey(ALL_STYLES, style_name)

FilesOfRun(k) == SelectSeq(files, LAMBDA f : f.run = k)
RendersOfRun(k) == SelectSeq(renders, LAMBDA r : r.run = k)

(* a, a - 1, ..., b; empty when a < b *)
Desc(a, b) == [i \in 1..(a - b + 1) |-> a - i + 1]

(* The text an image shows *)
ShownText(image) ==
    {image.ops[i].text : i \in {j \in 1..Len(image.ops) : image.ops[j].op = "text"}}

(* The value a string of decimal digits denotes *)
DigitValue(c) == (CHOOSE i \in 1..10 : DIGITS[i] = c) - 1
IsDigit(c) == \E i \in 1..10 : DIGITS[i] = c
RECURSIVE ParseDecimal(_)
ParseDecimal(s) ==
    IF s = <<>> THEN 0
    ELSE 10 * ParseDecimal(SubSeq(s, 1, Len(s) - 1)) + DigitValue(s[Len(s)])

-----------------------------------------------------------------------------
(* C1: a finished generate_frames run with fps = F >= 1, duration = D >= 0  *)
(* and start_seconds >= D has written exactly F x D frame files.            *)
(* This is the claim as stated; the code writes F x (D + 1).                *)
C1_FrameCountIsFpsTimesDuration ==
    (RunFinished /\ call.fps >= 1 /\ call.duration >= 0 /\ call.start >= call.duration)
        => Len(FilesOfRun(run)) = call.fps * call.duration

(* What the code does in the scenario of C1 (modern, fps 1, duration 3,     *)
(* start 10): four files, the third showing 00:00:08 and the last 00:00:07. *)
C1_ScenarioWritesFourFiles ==
    (call = Scenario /\ pc = "done")
        => /\ Len(files) = 4
           /\ ShownText(files[1].img) = {"00:00:10"}
           /\ ShownText(files[3].img) = {"00:00:08"}
           /\ ShownText(files[4].img) = {"00:00:07"}

(* C2: the seconds whose loop body is entered are start_seconds,            *)
(* start_seconds - 1, ... in steps of exactly 1, none below                 *)
(* max(start_seconds - duration, 0); when the run has finished they are     *)
(* all of them down to that bound; what is rendered and written is the      *)
(* visited seconds, never a negative one.                                   *)
C2_SecondsDescendByOne ==
    /\ (InRun \/ RunFinished) =>
          /\ \A i \in 1..Len(visited) :
                /\ visited[i] = call.start - (i - 1)
                /\ visited[i] >= Max(call.start - call.duration, 0)
          /\ \A i \in 1..Len(RendersOfRun(run)) :
                RendersOfRun(run)[i].total_seconds = visited[i]
          /\ Len(RendersOfRun(run)) <= Len(visited)
    /\ (pc = "gen_sub") => (second = visited[Len(visited)] /\ next_second = second - 1)
    /\ RunFinished => visited = Desc(call.start, Max(call.start - call.duration, 0))
    /\ \A i \in 1..Len(renders) : renders[i].total_seconds >= 0

C2_Witness ==
    /\ RunFinished
    /\ call.fps >= 1
    /\ call.start < call.duration
    /\ visited = <<2, 1, 0>>
    /\ Len(RendersOfRun(run)) = 3

(* What the properties expect of a run *)
RunStyle == DictGet(ALL_STYLES, style_name)
RunSeparator == IF IsCircle(RunStyle) THEN ":" ELSE RunStyle.separator

(* HH<sep>MM<sep>SS of a time below one minute, written out *)
SmallTimeText(sep, s) ==
    "00" \o sep \o "00" \o sep
    \o (IF s < 10 THEN "0" \o DIGITS[s + 1]
        ELSE DIGITS[(s \div 10) + 1] \o DIGITS[(s % 10) + 1])

(* Seconds whose image has been rendered / files written so far in the run *)
RenderedSeconds ==
    IF pc = "gen_sub" /\ sub_frame = 0 THEN Len(visited) - 1 ELSE Len(visited)
ExpectedFiles ==
    IF pc = "gen_sub" THEN call.fps * (Len(visited) - 1) + sub_frame
    ELSE call.fps * Len(visited)

(* The block property of C3, for a run with the given guard on fps *)
OneRenderPerSecond ==
    LET rs == RendersOfRun(run)
        fs == FilesOfRun(run)
    IN  /\ Len(rs) = RenderedSeconds
        /\ \A i \in 1..Len(rs) :
              /\ rs[i].total_seconds = visited[i]
              /\ rs[i].total_duration = call.start
              /\ rs[i].style = style_name
              /\ rs[i].fn = IF style_name \in {STYLES[j].key : j \in 1..Len(STYLES)}
                            THEN "render_frame" ELSE "render_circle_frame"
              /\ ShownText(rs[i].img) = {SmallTimeText(RunSeparator, visited[i])}
        /\ Len(fs) = ExpectedFiles
        /\ \A k \in 1..Len(fs) : fs[k].img = rs[((k - 1) \div call.fps) + 1].img

(* C3 as stated: for each visited second the compositor is invoked exactly  *)
(* once (by style family) and exactly fps files are written from that one   *)
(* image, whatever fps is (here: for every fps >= 0).                       *)
C3_OneRenderPerVisitedSecond ==
    ((InRun \/ RunFinished) /\ call.fps >= 0) => OneRenderPerSecond

(* C3, amended: with fps >= 1, each visited second is rendered exactly once, *)
(* by render_circle_frame for a circular style and render_frame otherwise,  *)
(* and exactly fps consecutive files hold that one image, which shows that  *)
(* second's time; with fps <= 0 a visited second is neither rendered nor    *)
(* written.                                                                 *)
C3_OneRenderPerSecondWhenFpsPositive ==
    (InRun \/ RunFinished) =>
        /\ call.fps >= 1 => OneRenderPerSecond
        /\ call.fps <= 0 => (RendersOfRun(run) = <<>> /\ FilesOfRun(run) = <<>>)

C3_Witness ==
    /\ RunFinished
    /\ call.fps = 2
    /\ Len(visited) >= 2
    /\ IsCircle(RunStyle)
    /\ FilesOfRun(run)[1].img = FilesOfRun(run)[2].img
    /\ FilesOfRun(run)[2].img # FilesOfRun(run)[3].img
    /\ Len(RendersOfRun(run)) = Len(visited)

(* The path of frame k of a style, written out for k < 100 *)
ExpectedPath(name, k) ==
    "output/" \o name \o "/frame_"
    \o (IF k < 10 THEN "0000000" \o DIGITS[k + 1]
        ELSE "000000" \o DIGITS[(k \div 10) + 1] \o DIGITS[(k % 10) + 1])
    \o ".png"

C5_UnknownStyleRejected ==
    (call.entry = "generate_frames" /\ run >= 1 /\ ~HasKey(ALL_STYLES, call.style))
        => /\ pc = "done"
           /\ exit_code = <<1>>
           /\ stdout = <<[line |-> "unknown_style", name |-> call.style],
                         [line |-> "available",
                          names |-> [i \in 1..Len(STYLES) + Len(CIRCLE_STYLES) |->
                                       IF i <= Len(STYLES) THEN STYLES[i].key
                                       ELSE CIRCLE_STYLES[i - Len(STYLES)].key]]>>
           /\ dirs = {}
           /\ files = <<>>
           /\ renders = <<>>
           /\ run = 1

C5_Witness ==
    /\ call.entry = "generate_frames"
    /\ call.style = "nope"
    /\ call.fps = 1 /\ call.duration = 3 /\ call.start = 4
    /\ run = 1
    /\ exit_code = <<1>>

(* C6: preview_style on a name that is not in the merged catalog reports the *)
(* name and the full list of valid names, ends with a non-zero status and   *)
(* writes no preview file. This is the claim as stated; the code prints the *)
(* name only and returns.                                                   *)
C6_PreviewUnknownIsUserError ==
    (call.entry = "preview_style" /\ run >= 1 /\ ~HasKey(ALL_STYLES, call.style))
        => /\ \E i \in 1..Len(stdout) :
                stdout[i].line = "unknown_style" /\ stdout[i].name = call.style
           /\ \E i \in 1..Len(stdout) : stdout[i].line = "available"
           /\ exit_code # <<>> /\ exit_code # <<0>>
           /\ files = <<>>

(* C7: format_time(n), n >= 0, is three strings of decimal digits: HH is    *)
(* floor(n / 3600) in at least 2 digits with no digit dropped and no zero   *)
(* in front of a third digit, MM is floor((n mod 3600) / 60) in exactly 2   *)
(* digits, 00..59, SS is n mod 60 in exactly 2 digits, 00..59, and          *)
(* 3600 HH + 60 MM + SS = n; 0 -> 00,00,00; 86400 -> 24,00,00;              *)
(* 45296 -> 12,34,56.                                                       *)
C7_FormatTime ==
    (ft_ret # <<>>) =>
        /\ Len(ft_ret) = 3
        /\ \A p \in 1..3 : \A i \in 1..Len(ft_ret[p]) : IsDigit(ft_ret[p][i])
        /\ LET hh == ft_ret[1]
               mm == ft_ret[2]
               ss == ft_ret[3]
           IN  /\ Len(hh) >= 2
               /\ Len(hh) > 2 => hh[1] # "0"
               /\ ft_arg >= 100 * 3600 => Len(hh) >= 3
               /\ ParseDecimal(hh) = ft_arg \div 3600
               /\ Len(mm) = 2
               /\ ParseDecimal(mm) = (ft_arg % 3600) \div 60
               /\ ParseDecimal(mm) \in 0..59
               /\ Len(ss) = 2
               /\ ParseDecimal(ss) = ft_arg % 60
               /\ ParseDecimal(ss) \in 0..59
               /\ 3600 * ParseDecimal(hh) + 60 * ParseDecimal(mm) + ParseDecimal(ss) = ft_arg
        /\ ft_arg = 0 => ft_ret = << <<"0", "0">>, <<"0", "0">>, <<"0", "0">> >>
        /\ ft_arg = 86400 => ft_ret = << <<"2", "4">>, <<"0", "0">>, <<"0", "0">> >>
        /\ ft_arg = 45296 => ft_ret = << <<"1", "2">>, <<"3", "4">>, <<"5", "6">> >>

C7_Witness ==
    /\ ft_arg = 360001
    /\ ft_ret = << <<"1", "0", "0">>, <<"0", "0">>, <<"0", "1">> >>

(* The calls of one compositor in the log *)
CallsOf(fn) == {i \in 1..Len(renders) : renders[i].fn = fn}

(* C8: in render_frame the progress ratio p satisfies p = 1 - r / t for     *)
(* t > 0 and p = 1 for t = 0 (no fault); it is 0 at r = t > 0 and 1 at      *)
(* r = 0; for one t > 0, a smaller r gives a strictly larger p.             *)
C8_ProgressRatio ==
    /\ \A i \in CallsOf("render_frame") :
          LET r == renders[i].total_seconds
              t == renders[i].total_duration
              p == renders[i].ratio
          IN  /\ p[2] > 0
              /\ t > 0 => p[1] * t = (t - r) * p[2]
              /\ t = 0 => p = <<1, 1>>
              /\ (t > 0 /\ r = t) => p = <<0, 1>>
              /\ r = 0 => p = <<1, 1>>
    /\ \A i, j \in CallsOf("render_frame") :
          (/\ renders[i].total_duration = renders[j].total_duration
           /\ renders[i].total_duration > 0
           /\ renders[i].total_seconds < renders[j].total_seconds)
            => RatLess(renders[j].ratio, renders[i].ratio)

C8_Witness ==
    /\ Len(renders) = 2
    /\ renders[1].fn = "render_frame"
    /\ renders[1].total_duration = 2 /\ renders[1].total_seconds = 2
    /\ renders[1].ratio = <<0, 1>>
    /\ renders[2].total_duration = 2 /\ renders[2].total_seconds = 1
    /\ renders[2].ratio = <<1, 2>>

(* The wedge layers an image holds *)
WedgeLayers(image) ==
    {i \in 1..Len(image.ops) : image.ops[i].op = "wedge_layer"}

(* C9: in render_circle_frame the remaining ratio q satisfies q = r / t for *)
(* t > 0 and q = 0 for t = 0; the image holds a wedge layer exactly when    *)
(* q > 0, and then exactly one, drawn before the ring, starting at -90      *)
(* degrees and spanning q x 360 degrees: 360 degrees at q = 1, no layer at  *)
(* q = 0.                                                                   *)
C9_RemainingRatioAndWedge ==
    \A i \in CallsOf("render_circle_frame") :
        LET r == renders[i].total_seconds
            t == renders[i].total_duration
            q == renders[i].ratio
            image == renders[i].img
            w == WedgeLayers(image)
        IN  /\ q[2] > 0
            /\ t > 0 => q[1] * t = r * q[2]
            /\ t = 0 => q = <<0, 1>>
            /\ (q[1] > 0) <=> (w # {})
            /\ Cardinality(w) <= 1
            /\ \A k \in w :
                  LET layer == image.ops[k]
                  IN  /\ layer.start = <<-90, 1>>
                      /\ (layer.end[1] + 90 * layer.end[2]) * t = 360 * r * layer.end[2]
                      /\ (r = t) => layer.end = <<270, 1>>
                      /\ \E n \in (k + 1)..Len(image.ops) : image.ops[n].op = "ring"
            /\ (r = 0 \/ t = 0) => w = {}

C9_Witness ==
    /\ Len(renders) = 2
    /\ renders[1].fn = "render_circle_frame"
    /\ renders[1].total_seconds = 2 /\ renders[1].total_duration = 2
    /\ \E k \in WedgeLayers(renders[1].img) : renders[1].img.ops[k].end = <<270, 1>>
    /\ renders[2].total_seconds = 0 /\ renders[2].total_duration = 2
    /\ WedgeLayers(renders[2].img) = {}

(* The names of a catalog *)
Names(d) == {d[i].key : i \in 1..Len(d)}

(* C10: the digital and the circular catalog hold 10 entries each and share *)
(* no name; ALL_STYLES holds every entry of both, unchanged, and nothing    *)
(* else: 20 entries; --list-styles prints each of these names exactly once, *)
(* none omitted and no other, and ends with nothing rendered or written.    *)
C10_MergedCatalogAndListing ==
    /\ Len(STYLES) = 10 /\ Cardinality(Names(STYLES)) = 10
    /\ Len(CIRCLE_STYLES) = 10 /\ Cardinality(Names(CIRCLE_STYLES)) = 10
    /\ Names(STYLES) \cap Names(CIRCLE_STYLES) = {}
    /\ Len(ALL_STYLES) = 20
    /\ Names(ALL_STYLES) = Names(STYLES) \cup Names(CIRCLE_STYLES)
    /\ \A i \in 1..Len(STYLES) : DictGet(ALL_STYLES, STYLES[i].key) = STYLES[i].cfg
    /\ \A i \in 1..Len(CIRCLE_STYLES) :
          DictGet(ALL_STYLES, CIRCLE_STYLES[i].key) = CIRCLE_STYLES[i].cfg
    /\ (call.entry = "main" /\ call.list_styles /\ pc = "done") =>
          LET listed == SelectSeq(stdout, LAMBDA l : l.line = "style")
          IN  /\ \A n \in Names(STYLES) \cup Names(CIRCLE_STYLES) :
                    Cardinality({i \in 1..Len(listed) : listed[i].name = n}) = 1
              /\ Len(listed) = 20
              /\ exit_code = <<0>>
              /\ files = <<>> /\ renders = <<>> /\ dirs = {} /\ run = 0

C10_Witness ==
    /\ call.entry = "main" /\ call.list_styles /\ call.preview /\ call.preview_all
    /\ pc = "done"
    /\ Len(stdout) = 22

(* A preview call: preview_style directly, or main with --preview[-all] *)
PreviewMode ==
    \/ call.entry = "preview_style"
    \/ call.entry = "main" /\ ~call.list_styles /\ (call.preview \/ call.preview_all)

(* C11: preview_style on a known style renders exactly one frame, showing  *)
(* 12:34:56 (45296 s) of a 24-hour countdown, with the compositor of the   *)
(* style's family, and saves it exactly once, as preview_<name>.png in the *)
(* output directory itself; no numbered sequence file is written.          *)
C11_PreviewRendersOneFrame ==
    PreviewMode =>
       /\ Len(renders) = Len(files)
       /\ \A i \in 1..Len(renders) :
             LET r == renders[i]
                 style == DictGet(ALL_STYLES, r.style)
                 sep == IF style.class = "CircleTimerConfig" THEN ":" ELSE style.separator
             IN  /\ HasKey(ALL_STYLES, r.style)
                 /\ r.total_seconds = 45296 /\ r.total_duration = 86400
                 /\ r.fn = (IF style.class = "CircleTimerConfig"
                            THEN "render_circle_frame" ELSE "render_frame")
                 /\ ShownText(r.img) = {"12" \o sep \o "34" \o sep \o "56"}
                 /\ files[i].img = r.img /\ files[i].run = r.run
                 /\ files[i].path = call.output \o "/preview_" \o r.style \o ".png"
                 /\ \A j \in 1..Len(renders) : j # i => renders[j].run # r.run
       /\ (call.entry = "preview_style" /\ pc = "done" /\ HasKey(ALL_STYLES, call.style)) =>
             /\ Len(files) = 1 /\ renders[1].style = call.style
             /\ dirs = {call.output}

C11_Witness ==
    /\ call.entry = "preview_style" /\ call.style = "circle-neon" /\ pc = "done"
    /\ Len(files) = 1
    /\ files[1].path = "output/preview_circle-neon.png"
    /\ renders[1].fn = "render_circle_frame"

-----------------------------------------------------------------------------
(* Font resolution on its own *)

(* font_candidates of get_font_at_size *)
font_candidates ==
    << "/System/Library/Fonts/SFMono-Bold.otf",
       "/System/Library/Fonts/Menlo.ttc",
       "/System/Library/Fonts/Courier.dfont",
       "/Library/Fonts/SF-Mono-Bold.otf",
       "/usr/share/fonts/truetype/dejavu/DejaVuSansMono-Bold.ttf",
       "/usr/share/fonts/truetype/liberation/LiberationMono-Bold.ttf",
       "/usr/share/fonts/truetype/ubuntu/UbuntuMono-Bold.ttf",
       "C:/Windows/Fonts/consola.ttf",
       "C:/Windows/Fonts/cour.ttf" >>

(* font_candidates of get_label_font_at_size *)
label_font_candidates ==
    << "/System/Library/Fonts/SFMono-Regular.otf",
       "/System/Library/Fonts/Helvetica.ttc",
       "/usr/share/fonts/truetype/dejavu/DejaVuSans.ttf",
       "/usr/share/fonts/truetype/liberation/LiberationSans-Regular.ttf",
       "C:/Windows/Fonts/arial.ttf" >>

(* The names the loaders hand to ImageFont.truetype after the loop *)
FontFallbackName == "DejaVuSansMono-Bold"
LabelFallbackName == "DejaVuSans"

(* What a candidate path is on disk: absent (os.path.exists is False), a   *)
(* file ImageFont.truetype raises on, or a font it loads                   *)
PathStates == {"missing", "unloadable", "font"}

(* The environments of one loader call: a state for each of its candidate  *)
(* paths, and whether truetype finds a font under the fallback name        *)
FontEnvs(candidates) ==
    [disk : [{candidates[k] : k \in 1..Len(candidates)} -> PathStates],
     named : BOOLEAN]

NoFont == [kind |-> "none"]
FontRaised == [kind |-> "raised"]

(* os.path.exists(path) *)
path_exists(env, path) == env.disk[path] # "missing"

(* ImageFont.truetype(path, size) on a candidate path *)
truetype(env, path, size) ==
    IF env.disk[path] = "font"
    THEN [kind |-> "truetype", font |-> path, size |-> size]
    ELSE FontRaised

(* ImageFont.truetype(name, size) on a font name *)
truetype_named(env, name, size) ==
    IF env.named
    THEN [kind |-> "truetype", font |-> name, size |-> size]
    ELSE FontRaised

(* ImageFont.load_default() *)
load_default == [kind |-> "default"]

(* Mutation of OnLoadError: a candidate that fails to load ends the call *)
OnLoadError_Propagate == "raise"

(* except Exception: continue *)
OnLoadError == "continue"

(* for path in font_candidates: ... from the k-th candidate on; NoFont when *)
(* the loop ends without a return                                           *)
RECURSIVE ProbeFrom(_, _, _, _)
ProbeFrom(env, candidates, k, size) ==
    IF k > Len(candidates) THEN NoFont
    ELSE IF ~path_exists(env, candidates[k])
         THEN ProbeFrom(env, candidates, k + 1, size)
         ELSE LET loaded == truetype(env, candidates[k], size)
              IN  IF loaded # FontRaised THEN loaded
                  ELSE IF OnLoadError = "continue"
                       THEN ProbeFrom(env, candidates, k + 1, size)
                       ELSE FontRaised

(* The part both loaders share: the loop, the named fallback, the default *)
LoadFont(env, candidates, fallback, size) ==
    LET probed == ProbeFrom(env, candidates, 1, size)
    IN  IF probed # NoFont THEN probed
        ELSE LET named == truetype_named(env, fallback, size)
             IN  IF named # FontRaised THEN named ELSE load_default

get_font_at_size(env, size) == LoadFont(env, font_candidates, FontFallbackName, size)

get_label_font_at_size(env, size) ==
    LoadFont(env, label_font_candidates, LabelFallbackName, size)

(* get_font / get_label_font: the sizes the compositors ask for *)
get_font_size(style) == style.font_size
get_label_font_size(style) == style.font_size \div 6

FontLoaders == {"get_font_at_size", "get_label_font_at_size"}

CandidatesOf(fn) ==
    IF fn = "get_font_at_size" THEN font_candidates ELSE label_font_candidates

InitFont ==
    /\ call \in {Args(fn, DefaultStyle, DefaultFps, DefaultDuration, DefaultStart,
                      FALSE, FALSE, FALSE) : fn \in FontLoaders}
    /\ pc = "font"
    /\ Idle
    /\ queue = <<IF call.entry = "get_font_at_size"
                 THEN get_font_size(DictGet(ALL_STYLES, call.style))
                 ELSE get_label_font_size(DictGet(ALL_STYLES, call.style))>>
    /\ ft_arg = 0
    /\ font_env \in FontEnvs(CandidatesOf(call.entry))

(* A loader call returns its font, or ends the process with a traceback *)
FontReturn(font) ==
    /\ font_ret' = (IF font = FontRaised THEN <<>> ELSE font)
    /\ exit_code' = (IF font = FontRaised THEN <<1>> ELSE exit_code)
    /\ pc' = "done"
    /\ queue' = Tail(queue)
    /\ UNCHANGED <<call, style_name, total_frames, second, next_second, visited,
                   sub_frame, frame_num, img, run, files, dirs, stdout, renders,
                   ft_arg, ft_ret, font_env>>

GetFontAtSizeCall ==
    /\ pc = "font"
    /\ call.entry = "get_font_at_size"
    /\ FontReturn(get_font_at_size(font_env, Head(queue)))

GetLabelFontAtSizeCall ==
    /\ pc = "font"
    /\ call.entry = "get_label_font_at_size"
    /\ FontReturn(get_label_font_at_size(font_env, Head(queue)))

NextFont ==
    \/ GetFontAtSizeCall
    \/ GetLabelFontAtSizeCall

SpecFont == InitFont /\ [][NextFont]_vars

(* The candidates of the call that are loadable fonts *)
LoadableAt == {k \in 1..Len(CandidatesOf(call.entry)) :
                  font_env.disk[CandidatesOf(call.entry)[k]] = "font"}

(* C13: a font loader call always returns a font and never raises: the     *)
(* first candidate, in list order, that exists and loads, whatever absent  *)
(* or unloadable candidates come before it; with no such candidate the     *)
(* font of the fallback name when that loads, and else the built-in font.  *)
C13_FontLoaderAlwaysReturns ==
    (call.entry \in FontLoaders /\ pc = "done") =>
        /\ exit_code = NotExited
        /\ font_ret # <<>>
        /\ font_ret.kind \in {"truetype", "default"}
        /\ LoadableAt # {} =>
              /\ font_ret.kind = "truetype"
              /\ \E k \in LoadableAt :
                    /\ \A j \in LoadableAt : k <= j
                    /\ font_ret.font = CandidatesOf(call.entry)[k]
        /\ (LoadableAt = {} /\ font_env.named) =>
              /\ font_ret.kind = "truetype"
              /\ font_ret.font = (IF call.entry = "get_font_at_size"
                                  THEN "DejaVuSansMono-Bold" ELSE "DejaVuSans")
        /\ (LoadableAt = {} /\ ~font_env.named) => font_ret = [kind |-> "default"]

C13_Witness ==
    /\ call.entry = "get_font_at_size" /\ pc = "done"
    /\ font_env.disk["/System/Library/Fonts/SFMono-Bold.otf"] = "unloadable"
    /\ font_env.disk["/System/Library/Fonts/Menlo.ttc"] = "missing"
    /\ font_env.disk["/System/Library/Fonts/Courier.dfont"] = "unloadable"
    /\ font_env.disk["/usr/share/fonts/truetype/dejavu/DejaVuSansMono-Bold.ttf"] = "font"
    /\ font_env.disk["C:/Windows/Fonts/cour.ttf"] = "font"
    /\ font_ret.kind = "truetype"
    /\ font_ret.font = "/usr/share/fonts/truetype/dejavu/DejaVuSansMono-Bold.ttf"

-----------------------------------------------------------------------------
(* Colour resolution *)

(* Every hex_to_rgb result of a logged compositor call that returned *)
ResolvedBy(r) == ColorsOf(r.img.ops) \cup {r.rgb[k] : k \in 1..Len(r.rgb)}

(* A tuple of 3 or 4 integer channels in 0..255 *)
IsChannelTuple(t) == Len(t) \in {3, 4} /\ \A k \in 1..Len(t) : t[k] \in 0..255

(* The colour fields a style asks its compositor to use: background and    *)
(* text, each decoration whose flag is set, and for a circular style the   *)
(* wedge, ring and tick colours whatever its flags are                     *)
ColorsInUse(style) ==
    {style.bg_color, style.text_color}
    \cup (IF style.gradient_bg /\ style.gradient_colors # <<>>
          THEN {style.gradient_colors[1], style.gradient_colors[2]} ELSE {})
    \cup (IF style.class = "CircleTimerConfig"
          THEN {style.wedge_color, style.ring_color, style.tick_color}
               \cup (IF style.show_hour_numbers THEN {style.hour_number_color} ELSE {})
               \cup (IF style.center_dot THEN {style.center_dot_color} ELSE {})
          ELSE (IF style.border THEN {style.border_color} ELSE {})
               \cup (IF style.rounded_bg /\ style.digit_bg_color \notin {NONE, ""}
                     THEN {style.digit_bg_color} ELSE {})
               \cup (IF style.circle_progress THEN {style.circle_color} ELSE {})
               \cup (IF style.show_labels THEN {style.label_color} ELSE {})
               \cup (IF style.progress_bar THEN {style.progress_color} ELSE {}))

(* C14: a compositor call on a catalog style raises nothing and resolves   *)
(* exactly the colours the style has in use; each resolves to a tuple of 3 *)
(* or 4 integer channels in 0..255, two hexadecimal digits per channel;    *)
(* a colour with fewer than six digits is never resolved.                  *)
C14_ColorsResolve ==
    \A i \in 1..Len(renders) :
        LET r == renders[i]
            style == DictGet(ALL_STYLES, r.style)
        IN  /\ r.img.kind = "image"
            /\ {c.hex : c \in ResolvedBy(r)} = ColorsInUse(style)
            /\ \A c \in ResolvedBy(r) :
                  LET digits == lstrip(ColorChars[c.hex], "#")
                  IN  /\ c.kind = "rgb"
                      /\ IsChannelTuple(c.rgb)
                      /\ Len(digits) >= 6
                      /\ \A k \in 1..3 :
                            c.rgb[k] = 16 * HexValue(digits[2 * k - 1]) + HexValue(digits[2 * k])

C14_Witness ==
    /\ call.style = "circle-gradient"
    /\ Len(renders) = 2
    /\ renders[2].total_seconds = 0
    /\ renders[2].rgb[3] = [kind |-> "rgb", hex |-> "#ffffffcc", rgb |-> <<255, 255, 255>>]
    /\ renders[2].img.ops[1].color = [kind |-> "rgb", hex |-> "#000000", rgb |-> <<0, 0, 0>>]
    /\ DictGet(ALL_STYLES, call.style).hour_number_color = "#ddd"
    /\ hex_to_rgb("#ddd").kind = "ValueError"
    /\ \A c \in ResolvedBy(renders[2]) : c.hex # "#ddd"

-----------------------------------------------------------------------------
(* Progress along a run *)

(* The elapsed share a logged compositor call stands for *)
Progress(r) == IF r.fn = "render_frame" THEN r.ratio ELSE RatSub(RatInt(1), r.ratio)

(* The compositor call that made the image of a written file *)
FileCall(f) ==
    CHOOSE r \in {renders[i] : i \in 1..Len(renders)} : r.run = f.run /\ r.img = f.img

(* The operations of one kind in an image *)
OpsOf(image, kind) == SelectSeq(image.ops, LAMBDA o : o.op = kind)

(* The linear bar of a digital frame: one track of the canvas width less   *)
(* the margins, and a fill from the track's left end whose width is the    *)
(* whole part of track width x progress, left out when that is 0           *)
BarFollowsProgress(r) ==
    LET style == DictGet(ALL_STYLES, r.style)
        tracks == OpsOf(r.img, "bar_track")
        fills == OpsOf(r.img, "bar_fill")
    IN  IF ~style.progress_bar THEN tracks = <<>> /\ fills = <<>>
        ELSE /\ Len(tracks) = 1 /\ Len(fills) <= 1
             /\ LET track == tracks[1].box
                    track_w == track[3] - track[1]
                    fill_w == IF fills = <<>> THEN 0 ELSE fills[1].box[3] - fills[1].box[1]
                IN  /\ track_w = style.width - 160
                    /\ 0 <= fill_w /\ fill_w <= track_w
                    /\ fills # <<>> => fill_w > 0
                    /\ fill_w * r.ratio[2] <= track_w * r.ratio[1]
                    /\ track_w * r.ratio[1] < (fill_w + 1) * r.ratio[2]
                    /\ fills # <<>> =>
                          /\ fills[1].box[1] = track[1]
                          /\ fills[1].box[2] = track[2] /\ fills[1].box[4] = track[4]

(* What C15 says of every frame and of consecutive files *)
RatiosAlongRuns ==
    /\ \A i \in 1..Len(renders) :
          LET r == renders[i]
          IN  /\ 0 <= r.total_seconds /\ r.total_seconds <= r.total_duration
              /\ r.total_duration = call.start
              /\ RatLeq(RatInt(0), r.ratio) /\ RatLeq(r.ratio, RatInt(1))
              /\ r.fn = "render_frame" => BarFollowsProgress(r)
    /\ \A j \in 1..(Len(files) - 1) :
          files[j].run = files[j + 1].run =>
              RatLeq(Progress(FileCall(files[j])), Progress(FileCall(files[j + 1])))

(* The first compositor call of each run *)
FirstCalls == {i \in 1..Len(renders) : i = 1 \/ renders[i - 1].run # renders[i].run}

(* C15 as stated: in every run of generate_frames every frame is rendered  *)
(* with 0 <= remaining_seconds <= total_duration and a ratio in [0,1], the *)
(* first rendered frame has progress 0.0, progress never decreases from one *)
(* file to the next, and the bar fill is between 0 and the track width,    *)
(* proportional to the progress ratio.                                     *)
C15_ProgressFromZero ==
    GenerateMode =>
        /\ RatiosAlongRuns
        /\ \A i \in FirstCalls : Progress(renders[i]) = RatInt(0)

(* C15, amended: as above, but the first rendered frame has progress 0.0   *)
(* only when start_seconds > 0; with start_seconds = 0 the only frame is   *)
(* rendered with total_duration = 0 and has progress 1.0.                  *)
C15_ProgressFromZeroWhenStartPositive ==
    GenerateMode =>
        /\ RatiosAlongRuns
        /\ \A i \in FirstCalls :
              /\ call.start > 0 => Progress(renders[i]) = RatInt(0)
              /\ call.start = 0 => Progress(renders[i]) = RatInt(1)

C15_Witness ==
    /\ call.entry = "generate_frames" /\ call.style = DefaultStyle
    /\ call.start = 3 /\ call.fps = 2 /\ pc = "done"
    /\ Len(files) = 8
    /\ Progress(FileCall(files[1])) = <<0, 1>>
    /\ Progress(FileCall(files[3])) = <<1, 3>>
    /\ OpsOf(files[1].img, "bar_fill") = <<>>
    /\ OpsOf(files[3].img, "bar_fill")[1].box = <<80, 1040, 666, 1046>>
    /\ OpsOf(files[7].img, "bar_fill")[1].box = <<80, 1040, 1840, 1046>>

-----------------------------------------------------------------------------
(* Tick marks *)

(* C16: with show_ticks set, each of the 60 positions i = 0..59 is drawn    *)
(* exactly once if its configured length (tick_major_len when i is a       *)
(* multiple of 5, else tick_minor_len) is greater than zero and not at all *)
(* otherwise; a drawn position lies at 6 i - 90 degrees, runs from         *)
(* radius - ring_width - length to radius - ring_width and has width 3 if  *)
(* major, 1 if minor; 12 positions are major and 48 minor; with show_ticks *)
(* unset no tick is drawn.                                                 *)
C16_TickMarks ==
    \A n \in CallsOf("render_circle_frame") :
        LET style == RenderStyle
            ticks == OpsOf(renders[n].img, "tick")
            radius == Min(style.width, style.height) \div 2 - 80
        IN  IF ~style.show_ticks THEN ticks = <<>>
            ELSE /\ \A k \in 1..Len(ticks) : ticks[k].i \in 0..59
                 /\ \A k \in 1..(Len(ticks) - 1) : ticks[k].i < ticks[k + 1].i
                 /\ Cardinality({i \in 0..59 : i % 5 = 0}) = 12
                 /\ \A i \in 0..59 :
                       LET major == (i % 5 = 0)
                           len == IF major THEN style.tick_major_len
                                  ELSE style.tick_minor_len
                           at == {k \in 1..Len(ticks) : ticks[k].i = i}
                       IN  /\ len <= 0 => at = {}
                           /\ len > 0 =>
                                /\ Cardinality(at) = 1
                                /\ \A k \in at :
                                      /\ ticks[k].angle = 6 * i - 90
                                      /\ ticks[k].major = major
                                      /\ ticks[k].inner = radius - style.ring_width - len
                                      /\ ticks[k].outer = radius - style.ring_width
                                      /\ ticks[k].width = (IF major THEN 3 ELSE 1)

C16_Witness ==
    /\ call.entry = "render" /\ call.style = "circle-minimal"
    /\ Len(renders) = 1
    /\ Len(OpsOf(renders[1].img, "tick")) = 12
    /\ OpsOf(renders[1].img, "tick")[2] =
          [op |-> "tick", i |-> 5, angle |-> -60, major |-> TRUE, inner |-> 443,
           outer |-> 458, color |-> hex_to_rgb("#cccccc"), width |-> 3]

-----------------------------------------------------------------------------
(* Glow *)

(* Position of the main time text among the operations of an image *)
TextAt(image) == CHOOSE k \in 1..Len(image.ops) : image.ops[k].op = "text"

(* Lattice points of the disc of radius 2 i, for i = 1..4 *)
DiscPoints == <<13, 49, 113, 197>>

(* The glow of a logged compositor call is made of the given number of     *)
(* layers i = layers, ..., 1, each a set of copies of the time text around *)
(* the text position, one per offset with dx^2 + dy^2 <= (2 i)^2, in the   *)
(* text colour at opacity int(40 / i), all drawn before the time text; a   *)
(* style without glow has no such layer                                    *)
GlowDrawn(r, layers) ==
    LET style == DictGet(ALL_STYLES, r.style)
        ops == r.img.ops
        glows == {k \in 1..Len(ops) : ops[k].op = "glow_layer"}
        shown == ops[TextAt(r.img)]
    IN  IF ~style.glow THEN glows = {}
        ELSE /\ Cardinality(glows) = layers
             /\ \A k \in glows :
                   /\ k < TextAt(r.img)
                   /\ ops[k].i \in 1..layers
                   /\ ops[k].text = shown.text /\ ops[k].at = shown.at
                   /\ ops[k].color = shown.color
                   /\ ops[k].alpha = 40 \div ops[k].i
                   /\ ops[k].copies = DiscPoints[ops[k].i]
                   /\ \A j \in glows : j < k => ops[j].i > ops[k].i
                                               /\ ops[j].alpha < ops[k].alpha
             /\ Cardinality({k \in 1..Len(ops) : ops[k].op = "text"}) = 1

(* C17 as stated: the circular compositor applies the glow exactly as the  *)
(* digital one: the same number of layers (the 4 of render_frame), opacity *)
(* inversely proportional to the layer index, offsets within the circular  *)
(* mask, every copy drawn before the main time text.                       *)
C17_GlowSameInBothCompositors ==
    \A n \in 1..Len(renders) : GlowDrawn(renders[n], 4)

(* C17, amended: as above, but with 4 layers in render_frame and 3 layers  *)
(* in render_circle_frame.                                                 *)
C17_GlowFourLayersDigitalThreeCircular ==
    \A n \in 1..Len(renders) :
        GlowDrawn(renders[n], IF renders[n].fn = "render_frame" THEN 4 ELSE 3)

C17_Witness ==
    /\ call.style = "circle-neon"
    /\ Len(renders) = 1
    /\ LET glows == OpsOf(renders[1].img, "glow_layer")
       IN  /\ Len(glows) = 3
           /\ <<glows[1].i, glows[2].i, glows[3].i>> = <<3, 2, 1>>
           /\ <<glows[1].alpha, glows[2].alpha, glows[3].alpha>> = <<13, 20, 40>>
           /\ <<glows[1].copies, glows[2].copies, glows[3].copies>> = <<113, 49, 13>>

-----------------------------------------------------------------------------
(* generate_frames over a minute and more: the progress report *)

(* Durations and starts around one report period, and 0 *)
ReportDurations == {0, ReportSeconds - 1, ReportSeconds}
ReportStarts == {0, ReportSeconds - 1, ReportSeconds + 1}
ReportFps == {0, 1, 2}

InitReport ==
    /\ call \in {Args("generate_frames", DefaultStyle, f, d, st, FALSE, FALSE, FALSE) :
                    f \in ReportFps, d \in ReportDurations, st \in ReportStarts}
    /\ pc = "start"
    /\ Idle
    /\ queue = <<>>
    /\ ft_arg = 0
    /\ font_env = <<>>

NextReport ==
    \/ CallGenerateFrames
    \/ ForSecond
    \/ SubFrame
    \/ SubFramesEnd
    \/ GenerateDone

SpecReport == InitReport /\ [][NextReport]_vars

(* The progress reports printed so far *)
Reports == SelectSeq(stdout, LAMBDA l : l.line = "progress")

(* What the code does: a report is printed exactly when the number of files *)
(* written is a positive multiple of fps x 60, with that number as its      *)
(* frame count, and its computation never divides by zero.                  *)
ReportAtEveryMinuteOfFrames ==
    /\ \A k \in 1..Len(stdout) : stdout[k].line # "ZeroDivisionError"
    /\ \A k \in 1..Len(Reports) : Reports[k].frame_num = k * call.fps * 60
    /\ call.fps >= 1 => Len(Reports) = Len(files) \div (call.fps * 60)
    /\ call.fps <= 0 => Reports = <<>>

(* C18: a progress report is printed exactly when the number of files      *)
(* written is a positive multiple of fps x 60; its frame count does not    *)
(* exceed total_frames = duration x fps, its percentage lies in 0..100 and *)
(* its remaining minutes are not negative; no report divides by zero.      *)
C18_ReportWithinTotals ==
    call.entry = "generate_frames" =>
        /\ ReportAtEveryMinuteOfFrames
        /\ \A k \in 1..Len(Reports) :
              /\ Reports[k].total_frames = call.duration * call.fps
              /\ Reports[k].frame_num <= Reports[k].total_frames
              /\ Reports[k].percent \in 0..100
              /\ Reports[k].remaining_minutes >= 0

-----------------------------------------------------------------------------
(* Termination *)

(* generate_frames called directly, as a single thread of control: it    *)
(* takes its next step as long as it has one                             *)
InitFair ==
    /\ call \in {c \in DirectCalls : c.entry = "generate_frames"}
    /\ pc = "start"
    /\ Idle
    /\ queue = <<>>
    /\ ft_arg = 0
    /\ font_env = <<>>

SpecFair == InitFair /\ [][NextReport]_vars /\ WF_vars(NextReport)

(* A direct generate_frames call on a known style *)
KnownRun == call.entry = "generate_frames" /\ HasKey(ALL_STYLES, call.style)

(* The final report, and what it counts *)
DoneLines == SelectSeq(stdout, LAMBDA l : l.line = "done")
DoneReported ==
    /\ pc = "done"
    /\ exit_code = <<0>>
    /\ Len(DoneLines) = 1
    /\ DoneLines[1].frame_num = Len(files)

(* Every file holds the image rendered for the second it was written in *)
FilesHoldCurrentSecond ==
    \A j \in 1..Len(files) :
        LET sec == visited[((j - 1) \div call.fps) + 1]
        IN  /\ files[j].img # NoImage
            /\ \E n \in 1..Len(renders) :
                  /\ renders[n].total_seconds = sec
                  /\ renders[n].total_duration = call.start
                  /\ renders[n].style = call.style
                  /\ renders[n].img = files[j].img
            /\ ShownText(files[j].img) = {SmallTimeText(RunSeparator, sec)}

(* C19: generate_frames on a known style, whatever the integers fps,       *)
(* duration and start_seconds are, ends with its final 'Done' report,      *)
(* whose frame count is the number of files written; it writes no file     *)
(* when fps <= 0, duration < 0 or start_seconds < 0; every file written    *)
(* holds the image rendered for the second current at that time.           *)
C19_TerminatesWithTrueCount ==
    /\ [](KnownRun =>
            /\ pc = "done" => DoneReported
            /\ Len(DoneLines) >= 1 => pc = "done"
            /\ (call.fps <= 0 \/ call.duration < 0 \/ call.start < 0) => files = <<>>
            /\ FilesHoldCurrentSecond)
    /\ (KnownRun ~> DoneReported)

C19_Witness ==
    /\ KnownRun /\ call.style = "circle-classic"
    /\ call.fps = 2 /\ call.duration = 1 /\ call.start = 4
    /\ DoneReported
    /\ Len(files) = 4
    /\ visited = <<4, 3>>
=============================================================================
